---------------------------- MODULE Spec2Model ----------------------------
(***************************************************************************)
(* A model of batdoc's format decoders.                                    *)
(*                                                                         *)
(* Every decoder is a single-threaded function over an in-memory input.    *)
(* Each modelled function has one variable holding its activation frame    *)
(* (a record whose fields are the function's locals, under their source    *)
(* names, plus its input and a program counter "pc").  A frame whose pc is *)
(* "idle" belongs to a function that the specification at hand does not    *)
(* run.  Strings are sequences of Unicode code points, byte buffers are    *)
(* sequences of 0..255, Option<T> is a sequence of length 0 or 1.          *)
(***************************************************************************)
EXTENDS Integers, Sequences, FiniteSets, TLC

VARIABLES
    ct,   \* doc.rs    chars_to_text
    ep,   \* doc.rs    extract_plain (FIB header checks)
    df,   \* main.rs   detect_format
    px,   \* xls.rs    parse_xls / parse_globals
    rs,   \* xls.rs    parse_sst / read_biff8_string
    ss,   \* xls.rs    parse_sheet_substream (+ sheet.rs render_plain)
    sx,   \* xlsx.rs   parse_sheet_xml
    ds,   \* xlsx.rs   discover_sheets
    si,   \* dateconv.rs  serial_to_iso
    rk,   \* xls.rs    decode_rk
    fs,   \* dateconv.rs  is_date_format_string
    rr,   \* markup.rs render_runs_markdown
    rm,   \* sheet.rs  render_markdown
    pm,   \* heuristic.rs  plain_to_markdown
    hl,   \* docx.rs   parse_heading_level
    mn,   \* main.rs   main (the loop over the input files)
    pp,   \* pptx.rs   parse_para
    hk    \* xlsx.rs   apply_hyperlinks

vars == <<ct, ep, df, px, rs, ss, sx, ds, si, rk, fs, rr, rm, pm, hl, mn, pp, hk>>

Idle == [pc |-> "idle"]

----------------------------------------------------------------------------
(* Generic helpers on sequences and Option.                                *)

None == <<>>
Some(v) == <<v>>
IsSome(o) == Len(o) = 1
Unwrap(o) == o[1]

Last(s) == s[Len(s)]
Front(s) == SubSeq(s, 1, Len(s) - 1)
Drop(s, n) == SubSeq(s, n + 1, Len(s))
Take(s, n) == SubSeq(s, 1, n)
Min(a, b) == IF a <= b THEN a ELSE b
Max(a, b) == IF a >= b THEN a ELSE b

RECURSIVE Concat(_)
Concat(ss_) == IF ss_ = <<>> THEN <<>> ELSE Head(ss_) \o Concat(Tail(ss_))

\* All sequences over S of length 0..n.
SeqsUpTo(S, n) == UNION {[1..k -> S] : k \in 0..n}

\* Index of the first element of s satisfying P, or 0.
FirstIndex(s, P(_)) ==
    IF \E i \in 1..Len(s) : P(s[i])
    THEN CHOOSE i \in 1..Len(s) : P(s[i]) /\ \A j \in 1..(i - 1) : ~P(s[j])
    ELSE 0

\* Index of the last element of s satisfying P, or 0.
LastIndex(s, P(_)) ==
    IF \E i \in 1..Len(s) : P(s[i])
    THEN CHOOSE i \in 1..Len(s) : P(s[i]) /\ \A j \in (i + 1)..Len(s) : ~P(s[j])
    ELSE 0

IsPrefix(p, s) == Len(p) <= Len(s) /\ SubSeq(s, 1, Len(p)) = p

\* str::find(needle): 1-based index of the first occurrence, or 0.
Find(s, needle) ==
    LET hits == {i \in 1..(Len(s) - Len(needle) + 1) :
                    SubSeq(s, i, i + Len(needle) - 1) = needle}
    IN IF hits = {} THEN 0 ELSE CHOOSE i \in hits : \A j \in hits : i <= j

----------------------------------------------------------------------------
(* Characters.                                                             *)

\* char::is_whitespace (Unicode White_Space).
IsWhitespace(ch) ==
    \/ ch \in 9..13
    \/ ch \in {32, 133, 160, 5760, 8232, 8233, 8239, 8287, 12288}
    \/ ch \in 8192..8202

\* str::trim_end, str::trim_start, str::trim.
TrimEnd(s) == Take(s, LastIndex(s, LAMBDA ch : ~IsWhitespace(ch)))
TrimStart(s) ==
    LET i == FirstIndex(s, LAMBDA ch : ~IsWhitespace(ch))
    IN IF i = 0 THEN <<>> ELSE Drop(s, i - 1)
Trim(s) == TrimStart(TrimEnd(s))

\* char::to_lowercase on the ASCII letters; the identity on the rest of the
\* alphabet the model draws from.
ToLowerChar(ch) == IF ch \in 65..90 THEN ch + 32 ELSE ch
ToLowercase(s) == [i \in 1..Len(s) |-> ToLowerChar(s[i])]

IsHighSurrogate(c) == c \in \hD800..\hDBFF
IsLowSurrogate(c) == c \in \hDC00..\hDFFF

\* char::from_u32 on a u16: None exactly on the surrogate range.
CharFromU32(c) == IF c \in \hD800..\hDFFF \/ c > \h10FFFF THEN None ELSE Some(c)

ReplacementChar == \hFFFD

\* The C0 control characters other than tab and newline.
IsBadControl(ch) == ch \in 0..31 /\ ch # 9 /\ ch # 10

----------------------------------------------------------------------------
(* doc.rs: the field state machine of chars_to_text.                       *)

Instruction(s) == [kind |-> "Instruction", s |-> s]
Display(url, text) == [kind |-> "Display", url |-> url, text |-> text]

\* "HYPERLINK" and "hyperlink"
KwUpper == <<72, 89, 80, 69, 82, 76, 73, 78, 75>>
KwLower == ToLowercase(KwUpper)

extract_hyperlink_url(instruction) ==
    LET trimmed == Trim(instruction)
        lower == ToLowercase(trimmed)
        idx == Find(lower, KwLower)
        found == IsPrefix(KwUpper, trimmed) \/ IsPrefix(KwLower, trimmed) \/ idx > 0
        rest0 == IF IsPrefix(KwUpper, trimmed) \/ IsPrefix(KwLower, trimmed)
                 THEN Drop(trimmed, 9)
                 ELSE Drop(trimmed, (idx - 1) + 9)
        rest == TrimStart(rest0)
        quoted == rest # <<>> /\ rest[1] = 34
        inner == Tail(rest)
        qend == Find(inner, <<34>>)
        uend == FirstIndex(rest, LAMBDA c : IsWhitespace(c) \/ c = 92)
        url == IF quoted
               THEN (IF qend = 0 THEN inner ELSE Take(inner, qend - 1))
               ELSE (IF uend = 0 THEN rest ELSE Take(rest, uend - 1))
    IN IF ~found THEN None
       ELSE IF rest = <<>> THEN None
       ELSE IF url = <<>> THEN None
       ELSE Some(url)

\* Appends ch to the buffer of the innermost field state.
PushTop(field_stack, ch) ==
    LET n == Len(field_stack)
        state == field_stack[n]
    IN IF state.kind = "Instruction"
       THEN [field_stack EXCEPT ![n] = Instruction(state.s \o <<ch>>)]
       ELSE [field_stack EXCEPT ![n] = Display(state.url, state.text \o <<ch>>)]

\* Clears the buffer of the innermost field state.
ClearTop(field_stack) ==
    LET n == Len(field_stack)
        state == field_stack[n]
    IN IF state.kind = "Instruction"
       THEN [field_stack EXCEPT ![n] = Instruction(<<>>)]
       ELSE [field_stack EXCEPT ![n] = Display(state.url, <<>>)]

push_char_to_field_or_para(f, ch) ==
    IF f.field_stack # <<>>
    THEN [f EXCEPT !.field_stack = PushTop(f.field_stack, ch)]
    ELSE [f EXCEPT !.paragraph = f.paragraph \o <<ch>>]

\* flush_paragraph with the paragraph left untrimmed.
flush_paragraph_untrimmed(f) ==
    LET text == f.paragraph
    IN IF text # <<>>
       THEN [f EXCEPT !.output = f.output \o (IF f.first THEN <<>> ELSE <<10>>)
                                          \o text \o <<10>>,
                      !.first = FALSE,
                      !.paragraph = <<>>]
       ELSE [f EXCEPT !.paragraph = <<>>]

flush_paragraph(f) ==
    LET text == TrimEnd(f.paragraph)
    IN IF text # <<>>
       THEN [f EXCEPT !.output = f.output \o (IF f.first THEN <<>> ELSE <<10>>)
                                          \o text \o <<10>>,
                      !.first = FALSE,
                      !.paragraph = <<>>]
       ELSE [f EXCEPT !.paragraph = <<>>]

\* emit_field_end with the link text left untrimmed.
emit_field_end_untrimmed(f) ==
    IF f.field_stack = <<>> THEN f
    ELSE LET state == Last(f.field_stack)
             rest == Front(f.field_stack)
         IN IF state.kind = "Display" /\ IsSome(state.url)
            THEN [f EXCEPT !.field_stack = rest,
                           !.paragraph = f.paragraph \o <<91>> \o state.text
                                         \o <<93, 40>> \o Unwrap(state.url) \o <<41>>]
            ELSE IF state.kind = "Display"
            THEN [f EXCEPT !.field_stack = rest,
                           !.paragraph = f.paragraph \o state.text]
            ELSE [f EXCEPT !.field_stack = rest]

emit_field_end(f) ==
    IF f.field_stack = <<>> THEN f
    ELSE LET state == Last(f.field_stack)
             rest == Front(f.field_stack)
         IN IF state.kind = "Display" /\ IsSome(state.url)
            THEN [f EXCEPT !.field_stack = rest,
                           !.paragraph = f.paragraph \o <<91>> \o Trim(state.text)
                                         \o <<93, 40>> \o Unwrap(state.url) \o <<41>>]
            ELSE IF state.kind = "Display"
            THEN [f EXCEPT !.field_stack = rest,
                           !.paragraph = f.paragraph \o state.text]
            ELSE [f EXCEPT !.field_stack = rest]

\* field_depth -= 1 without its guard.
LeaveField_unguarded(field_depth) == field_depth - 1
\* if field_depth > 0 { field_depth -= 1; }
LeaveField(field_depth) == IF field_depth > 0 THEN field_depth - 1 ELSE field_depth

\* The match on c in the loop of chars_to_text (after the surrogate prologue).
MatchChar(f, c) ==
    IF c = \h13
    THEN [f EXCEPT !.field_depth = f.field_depth + 1,
                   !.field_stack = Append(f.field_stack, Instruction(<<>>))]
    ELSE IF c = \h14
    THEN IF f.field_stack = <<>> THEN f
         ELSE LET n == Len(f.field_stack)
                  state == f.field_stack[n]
                  url == IF state.kind = "Instruction"
                         THEN extract_hyperlink_url(state.s)
                         ELSE None
              IN [f EXCEPT !.field_stack[n] = Display(url, <<>>)]
    ELSE IF c = \h15
    THEN LET g == emit_field_end(f)
         IN [g EXCEPT !.field_depth = LeaveField(g.field_depth)]
    ELSE IF f.field_depth > 0
    THEN IF c = \h0D \/ c = \h0B
         THEN (IF f.field_stack # <<>>
               THEN [f EXCEPT !.field_stack = ClearTop(f.field_stack)]
               ELSE f)
         ELSE IF IsSome(CharFromU32(c)) /\ c >= 32 /\ f.field_stack # <<>>
         THEN [f EXCEPT !.field_stack = PushTop(f.field_stack, c)]
         ELSE f
    ELSE IF c \in \h0B..\h0D THEN flush_paragraph(f)
    ELSE IF c = \h07 \/ c = \h09 THEN [f EXCEPT !.paragraph = f.paragraph \o <<9>>]
    ELSE IF c = \h1E THEN [f EXCEPT !.paragraph = f.paragraph \o <<45>>]
    ELSE IF c = \h1F \/ c = \h02 \/ c = \hFEFF THEN f
    ELSE IF IsLowSurrogate(c) THEN [f EXCEPT !.paragraph = f.paragraph \o <<ReplacementChar>>]
    ELSE IF c < \h20 THEN f
    ELSE IF IsSome(CharFromU32(c)) THEN [f EXCEPT !.paragraph = f.paragraph \o <<c>>]
    ELSE f

\* One iteration of `for &c in chars`.
LoopBody(f, c) ==
    IF IsSome(f.pending_high_surrogate) /\ IsLowSurrogate(c)
    THEN LET hi == Unwrap(f.pending_high_surrogate)
             code == \h10000 + ((hi - \hD800) * 1024) + (c - \hDC00)
             g == [f EXCEPT !.pending_high_surrogate = None]
         IN IF IsSome(CharFromU32(code)) THEN push_char_to_field_or_para(g, code) ELSE g
    ELSE LET g == IF IsSome(f.pending_high_surrogate)
                  THEN push_char_to_field_or_para(
                           [f EXCEPT !.pending_high_surrogate = None], ReplacementChar)
                  ELSE f
         IN IF IsHighSurrogate(c)
            THEN [g EXCEPT !.pending_high_surrogate = Some(c)]
            ELSE MatchChar(g, c)

\* The loop over a slice of the stream.
RECURSIVE LoopOver(_, _)
LoopOver(f, units) ==
    IF units = <<>> THEN f ELSE LoopOver(LoopBody(f, Head(units)), Tail(units))

\* After the loop: the trailing unpaired high surrogate and the last flush.
AfterLoop(f) ==
    LET g == IF IsSome(f.pending_high_surrogate)
             THEN [f EXCEPT !.paragraph = f.paragraph \o <<ReplacementChar>>]
             ELSE f
    IN flush_paragraph(g)

\* The frame of chars_to_text on entry; `chars` is the part of the input
\* stream consumed so far and `fed` the number of slices it came in.
CtStart ==
    [pc |-> "loop", chars |-> <<>>, output |-> <<>>, paragraph |-> <<>>,
     first |-> TRUE, field_depth |-> 0, field_stack |-> <<>>,
     pending_high_surrogate |-> None, fed |-> 0]


\* The input stream arrives in slices: single code units and whole words.
MaxTok == 6
MaxSurr == 5

HyperlinkWord == KwUpper \o <<32, 34, 117, 34>>     \* HYPERLINK "u"
TextWord == <<32, 97, 32>>                          \* " a "
FieldTokens == {<<\h13>>, <<\h14>>, <<\h15>>, <<\h0D>>, <<32>>, TextWord, HyperlinkWord}
SurrTokens == {<<\hD83D>>, <<\hDE00>>, <<\h13>>, <<\h14>>, <<\h15>>, <<97>>}

CtOthers == <<ep, df, px, rs, ss, sx, ds, si, rk, fs, rr, rm, pm, hl, mn, pp, hk>>

\* The loop of chars_to_text runs over the next slice of the stream.
CtFeed(tok, bound) ==
    /\ ct.pc = "loop"
    /\ ct.fed < bound
    /\ ct' = [LoopOver(ct, tok) EXCEPT !.chars = ct.chars \o tok, !.fed = ct.fed + 1]
    /\ UNCHANGED CtOthers

\* End of the stream: chars_to_text returns `output`.
CtFinish ==
    /\ ct.pc = "loop"
    /\ ct' = [AfterLoop(ct) EXCEPT !.pc = "done"]
    /\ UNCHANGED CtOthers

CtFeedField == \E tok \in FieldTokens : CtFeed(tok, MaxTok)
CtFeedSurr == \E tok \in SurrTokens : CtFeed(tok, MaxSurr)

AllIdleBut(v) ==
    /\ (v = "ct" \/ ct = Idle)
    /\ (v = "ep" \/ ep = Idle)
    /\ (v = "df" \/ df = Idle)
    /\ (v = "px" \/ px = Idle)
    /\ (v = "rs" \/ rs = Idle)
    /\ (v = "ss" \/ ss = Idle)
    /\ (v = "sx" \/ sx = Idle)
    /\ (v = "ds" \/ ds = Idle)
    /\ (v = "si" \/ si = Idle)
    /\ (v = "rk" \/ rk = Idle)
    /\ (v = "fs" \/ fs = Idle)
    /\ (v = "rr" \/ rr = Idle)
    /\ (v = "rm" \/ rm = Idle)
    /\ (v = "pm" \/ pm = Idle)
    /\ (v = "hl" \/ hl = Idle)
    /\ (v = "mn" \/ mn = Idle)
    /\ (v = "pp" \/ pp = Idle)
    /\ (v = "hk" \/ hk = Idle)

InitDoc == ct = CtStart /\ AllIdleBut("ct")
NextDoc == CtFeedField \/ CtFinish
SpecDoc == InitDoc /\ [][NextDoc]_vars

NextDocSurr == CtFeedSurr \/ CtFinish
SpecDocSurr == InitDoc /\ [][NextDocSurr]_vars

----------------------------------------------------------------------------
(* Claims about chars_to_text.                                             *)

IsMarker(c) == c \in {\h13, \h14, \h15}
\* An ordinary text character: appended as it is wherever it occurs.
IsPlainChar(c) == c >= 32 /\ ~IsHighSurrogate(c) /\ ~IsLowSurrogate(c) /\ c # \hFEFF
IsPlain(s) == \A i \in 1..Len(s) : IsPlainChar(s[i])

\* What a stream holding the single paragraph `text` yields.
OneParagraph(text) == IF TrimEnd(text) = <<>> THEN <<>> ELSE TrimEnd(text) \o <<10>>

\* A stream  pre 0x13 instr 0x14 disp 0x15 post [0x0D]  with plain parts.
StripFinalCR(s) == IF s # <<>> /\ Last(s) = \h0D THEN Front(s) ELSE s
FieldBeginAt(s) == FirstIndex(s, LAMBDA c : c = \h13)
FieldSepAt(s) == FirstIndex(s, LAMBDA c : c = \h14)
FieldEndAt(s) == FirstIndex(s, LAMBDA c : c = \h15)
IsSingleField(s0) ==
    LET s == StripFinalCR(s0)
        b == FieldBeginAt(s)
        m == FieldSepAt(s)
        e == FieldEndAt(s)
    IN /\ 0 < b /\ b < m /\ m < e
       /\ \A i \in 1..Len(s) : i \in {b, m, e} \/ IsPlainChar(s[i])
FieldPre(s) == Take(s, FieldBeginAt(s) - 1)
FieldInstr(s) == SubSeq(s, FieldBeginAt(s) + 1, FieldSepAt(s) - 1)
FieldDisp(s) == SubSeq(s, FieldSepAt(s) + 1, FieldEndAt(s) - 1)
FieldPost(s) == Drop(StripFinalCR(s), FieldEndAt(s))

MarkdownLink(text, url) == <<91>> \o text \o <<93, 40>> \o url \o <<41>>
MentionsHyperlink(instr) == Find(ToLowercase(instr), KwLower) > 0

\* C2: a top-level field  0x13 instr 0x14 disp 0x15  between plain text is
\* replaced, in place, by [trim(disp)](url) when instr is a HYPERLINK with a
\* URL and by disp when instr is no HYPERLINK; the text around it is kept.
C2_FieldReplaced ==
    (ct.pc = "done" /\ IsSingleField(ct.chars)) =>
        LET pre == FieldPre(ct.chars)
            instr == FieldInstr(ct.chars)
            disp == FieldDisp(ct.chars)
            post == FieldPost(ct.chars)
            url == extract_hyperlink_url(instr)
        IN /\ IsSome(url) =>
                ct.output = OneParagraph(pre \o MarkdownLink(Trim(disp), Unwrap(url)) \o post)
           /\ ~MentionsHyperlink(instr) => ct.output = OneParagraph(pre \o disp \o post)
           /\ IsPrefix(HyperlinkWord, instr) => url = Some(<<117>>)

\* " a " 0x13 HYPERLINK "u" 0x14 " a " 0x15  gives  " a [a](u)\n".
C2_Witness ==
    /\ ct.pc = "done"
    /\ ct.chars = TextWord \o <<\h13>> \o HyperlinkWord \o <<\h14>> \o TextWord \o <<\h15>>
    /\ ct.output = TextWord \o MarkdownLink(<<97>>, <<117>>) \o <<10>>

\* The units of `body` close every field they open, and hold no separator
\* outside those inner fields.
RECURSIVE NoOwnSeparator(_, _)
NoOwnSeparator(body, d) ==
    IF body = <<>> THEN d = 0
    ELSE LET c == Head(body)
         IN IF c = \h13 THEN NoOwnSeparator(Tail(body), d + 1)
            ELSE IF c = \h15 THEN d > 0 /\ NoOwnSeparator(Tail(body), d - 1)
            ELSE IF c = \h14 THEN d > 0 /\ NoOwnSeparator(Tail(body), d)
            ELSE NoOwnSeparator(Tail(body), d)

\* A stream  pre 0x13 body 0x15 post  with plain pre and post, whose outer
\* field sees no separator of its own.
IsUnseparatedField(s) ==
    LET b == FirstIndex(s, LAMBDA c : ~IsPlainChar(c))
        e == LastIndex(s, LAMBDA c : ~IsPlainChar(c))
    IN /\ 0 < b /\ b < e
       /\ s[b] = \h13 /\ s[e] = \h15
       /\ NoOwnSeparator(SubSeq(s, b + 1, e - 1), 0)

\* C3: a field that reaches 0x15 with no separator seen for it is suppressed
\* entirely: nothing between its 0x13 and its 0x15 reaches the output, the
\* text before and after it is kept.
C3_FieldSuppressed ==
    (ct.pc = "done" /\ IsUnseparatedField(ct.chars)) =>
        LET b == FirstIndex(ct.chars, LAMBDA c : ~IsPlainChar(c))
            e == LastIndex(ct.chars, LAMBDA c : ~IsPlainChar(c))
        IN ct.output = OneParagraph(Take(ct.chars, b - 1) \o Drop(ct.chars, e))

\* The buffer the next character goes to: the innermost open field's, or the
\* paragraph.
Destination(f) ==
    IF f.field_stack # <<>>
    THEN (IF Last(f.field_stack).kind = "Instruction"
          THEN Last(f.field_stack).s ELSE Last(f.field_stack).text)
    ELSE f.paragraph

SupplementaryCodePoint(hi, lo) == \h10000 + ((hi - \hD800) * 1024) + (lo - \hDC00)

\* C4: a surrogate pair decodes to its supplementary code point, and every
\* unpaired surrogate puts exactly one U+FFFD into the current destination
\* (the innermost open field's buffer, else the paragraph); none is dropped.
C4_Surrogates ==
    [][ct.pc = "loop" =>
        LET pend == ct.pending_high_surrogate
            c == Last(ct'.chars)
        IN /\ (ct'.pc = "loop" /\ IsSome(pend) /\ IsLowSurrogate(c)) =>
                 Destination(ct') =
                     Destination(ct) \o <<SupplementaryCodePoint(Unwrap(pend), c)>>
           /\ (ct'.pc = "loop" /\ ~IsSome(pend) /\ IsLowSurrogate(c)) =>
                 Destination(ct') = Destination(ct) \o <<ReplacementChar>>
           /\ (ct'.pc = "loop" /\ IsSome(pend) /\ IsHighSurrogate(c)) =>
                 Destination(ct') = Destination(ct) \o <<ReplacementChar>>
           /\ (ct'.pc = "loop" /\ IsSome(pend) /\ c = 97) =>
                 Destination(ct') = Destination(ct) \o <<ReplacementChar, 97>>
           /\ (ct'.pc = "done" /\ IsSome(pend) /\ ct.field_stack = <<>>) =>
                 ct'.output = AfterLoop([ct EXCEPT
                     !.paragraph = ct.paragraph \o <<ReplacementChar>>,
                     !.pending_high_surrogate = None]).output
           /\ (ct'.pc = "done" /\ IsSome(pend) /\ ct.field_stack # <<>>) =>
                 ct'.output = AfterLoop([ct EXCEPT !.pending_high_surrogate = None]).output
       ]_vars

----------------------------------------------------------------------------
(* error.rs: BatdocError; Result<T>.                                       *)

Ok(v) == [ok |-> TRUE, value |-> v]
ErrDocument(msg) == [ok |-> FALSE, kind |-> "Document", msg |-> msg]
ErrIo == [ok |-> FALSE, kind |-> "Io", msg |-> "io"]
ErrZip == [ok |-> FALSE, kind |-> "Zip", msg |-> "zip"]

----------------------------------------------------------------------------
(* main.rs: detect_format.                                                 *)
(* The input is its leading bytes together with what the container         *)
(* libraries make of the whole of it: `cfb` is None when                   *)
(* CompoundFile::open fails and else the set of stream paths, `zip` is     *)
(* None when ZipArchive::new fails and else the set of entry names.        *)

OLE2_MAGIC == <<\hD0, \hCF, \h11, \hE0, \hA1, \hB1, \h1A, \hE1>>
ZIP_MAGIC == <<\h50, \h4B, \h03, \h04>>
PDF_MAGIC == <<\h25, \h50, \h44, \h46, \h2D>>

\* detect_format that looks for the workbook stream before the Word one.
detect_format_xls_first(data) ==
    IF Len(data.bytes) >= 8 /\ Take(data.bytes, 8) = OLE2_MAGIC
    THEN IF ~IsSome(data.cfb) THEN ErrIo
         ELSE IF "/Workbook" \in Unwrap(data.cfb) \/ "/Book" \in Unwrap(data.cfb)
         THEN Ok("Xls")
         ELSE IF "/WordDocument" \in Unwrap(data.cfb) THEN Ok("Doc")
         ELSE ErrDocument("OLE2 file is not a .doc or .xls document")
    ELSE IF Len(data.bytes) >= 5 /\ Take(data.bytes, 5) = PDF_MAGIC
    THEN Ok("Pdf")
    ELSE IF Len(data.bytes) >= 4 /\ Take(data.bytes, 4) = ZIP_MAGIC
    THEN IF ~IsSome(data.zip) THEN ErrZip
         ELSE IF "word/document.xml" \in Unwrap(data.zip) THEN Ok("Docx")
         ELSE IF "xl/workbook.xml" \in Unwrap(data.zip) THEN Ok("Xlsx")
         ELSE IF "ppt/presentation.xml" \in Unwrap(data.zip) THEN Ok("Pptx")
         ELSE ErrDocument("ZIP archive is not a .docx, .xlsx, or .pptx file")
    ELSE ErrDocument("not a supported document (unrecognized format)")

detect_format(data) ==
    IF Len(data.bytes) >= 8 /\ Take(data.bytes, 8) = OLE2_MAGIC
    THEN IF ~IsSome(data.cfb) THEN ErrIo
         ELSE IF "/WordDocument" \in Unwrap(data.cfb) THEN Ok("Doc")
         ELSE IF "/Workbook" \in Unwrap(data.cfb) \/ "/Book" \in Unwrap(data.cfb)
         THEN Ok("Xls")
         ELSE ErrDocument("OLE2 file is not a .doc or .xls document")
    ELSE IF Len(data.bytes) >= 5 /\ Take(data.bytes, 5) = PDF_MAGIC
    THEN Ok("Pdf")
    ELSE IF Len(data.bytes) >= 4 /\ Take(data.bytes, 4) = ZIP_MAGIC
    THEN IF ~IsSome(data.zip) THEN ErrZip
         ELSE IF "word/document.xml" \in Unwrap(data.zip) THEN Ok("Docx")
         ELSE IF "xl/workbook.xml" \in Unwrap(data.zip) THEN Ok("Xlsx")
         ELSE IF "ppt/presentation.xml" \in Unwrap(data.zip) THEN Ok("Pptx")
         ELSE ErrDocument("ZIP archive is not a .docx, .xlsx, or .pptx file")
    ELSE ErrDocument("not a supported document (unrecognized format)")

\* Inputs: every prefix of every magic, followed by up to MaxExtra bytes.
MaxExtra == 1
ExtraBytes == {\h00, \h50}
DfBytes ==
    {Take(m, Min(k, Len(m))) \o x : m \in {OLE2_MAGIC, ZIP_MAGIC, PDF_MAGIC}, k \in 0..8,
                       x \in SeqsUpTo(ExtraBytes, MaxExtra)}
OptionalSubset(S) == {None} \cup {Some(x) : x \in SUBSET S}
DfInputs ==
    [bytes : DfBytes,
     cfb : OptionalSubset({"/WordDocument", "/Workbook", "/Book"}),
     zip : OptionalSubset({"word/document.xml", "xl/workbook.xml", "ppt/presentation.xml"})]

DfOthers == <<ct, ep, px, rs, ss, sx, ds, si, rk, fs, rr, rm, pm, hl, mn, pp, hk>>

DfDetect ==
    /\ df.pc = "call"
    /\ df' = [df EXCEPT !.pc = "done", !.result = detect_format(df.data)]
    /\ UNCHANGED DfOthers

InitDetect ==
    /\ \E d \in DfInputs : df = [pc |-> "call", data |-> d, result |-> None]
    /\ AllIdleBut("df")
NextDetect == DfDetect
SpecDetect == InitDetect /\ [][NextDetect]_vars

StartsWith(bytes, magic) == Len(bytes) >= Len(magic) /\ Take(bytes, Len(magic)) = magic
HasStream(data, path) == IsSome(data.cfb) /\ path \in Unwrap(data.cfb)
HasEntry(data, name) == IsSome(data.zip) /\ name \in Unwrap(data.zip)
IsFormat(r, fmt) == r.ok /\ r.value = fmt
IsError(r) == ~r.ok

\* C1: detect_format applies, in order: OLE2 magic (Doc with /WordDocument,
\* else Xls with /Workbook or /Book, else an error); %PDF- (Pdf); ZIP magic
\* (Docx, else Xlsx, else Pptx by the part present, else an error); any other
\* input, also an empty or too short one, is a Document error.
C1_DetectFormat ==
    df.pc = "done" =>
        LET b == df.data.bytes
            d == df.data
            r == df.result
            ole == StartsWith(b, OLE2_MAGIC)
            pdf == ~ole /\ StartsWith(b, PDF_MAGIC)
            zip == ~ole /\ ~pdf /\ StartsWith(b, ZIP_MAGIC)
        IN /\ (ole /\ HasStream(d, "/WordDocument")) => IsFormat(r, "Doc")
           /\ (ole /\ ~HasStream(d, "/WordDocument")
                   /\ (HasStream(d, "/Workbook") \/ HasStream(d, "/Book"))) => IsFormat(r, "Xls")
           /\ (ole /\ ~HasStream(d, "/WordDocument") /\ ~HasStream(d, "/Workbook")
                   /\ ~HasStream(d, "/Book")) => IsError(r)
           /\ pdf => IsFormat(r, "Pdf")
           /\ (zip /\ HasEntry(d, "word/document.xml")) => IsFormat(r, "Docx")
           /\ (zip /\ ~HasEntry(d, "word/document.xml") /\ HasEntry(d, "xl/workbook.xml"))
                 => IsFormat(r, "Xlsx")
           /\ (zip /\ ~HasEntry(d, "word/document.xml") /\ ~HasEntry(d, "xl/workbook.xml")
                   /\ HasEntry(d, "ppt/presentation.xml")) => IsFormat(r, "Pptx")
           /\ (zip /\ ~HasEntry(d, "word/document.xml") /\ ~HasEntry(d, "xl/workbook.xml")
                   /\ ~HasEntry(d, "ppt/presentation.xml")) => IsError(r)
           /\ (~ole /\ ~pdf /\ ~zip) => (IsError(r) /\ r.kind = "Document")

\* An OLE2 file holding both a Word and a workbook stream is a Doc.
C1_Witness ==
    /\ df.pc = "done"
    /\ df.data.bytes = OLE2_MAGIC
    /\ df.data.cfb = Some({"/WordDocument", "/Workbook"})
    /\ df.result = Ok("Doc")

----------------------------------------------------------------------------
(* doc.rs: extract_plain.                                                  *)
(* The input is what CompoundFile::open makes of it (`cfb`, as for         *)
(* detect_format) and the WordDocument stream: its length, the FIB fields  *)
(* the function reads, and `units`, the code units the text range decodes  *)
(* to.  Locals are None until the statement that binds them has run.       *)

RECURSIVE BitAnd(_, _)
BitAnd(a, b) ==
    IF a = 0 \/ b = 0 THEN 0
    ELSE (a % 2) * (b % 2) + 2 * BitAnd(a \div 2, b \div 2)

F_ENCRYPTED_other_bit == \h1000
F_ENCRYPTED == \h0100
F_EXT_CHAR == \h1000
FibLen == 32

chars_to_text(chars) == AfterLoop(LoopOver(CtStart, chars)).output

EpOthers == <<ct, df, px, rs, ss, sx, ds, si, rk, fs, rr, rm, pm, hl, mn, pp, hk>>
EpFail(e) == [ep EXCEPT !.pc = "error", !.result = Some(e)]

\* CompoundFile::open, cfb.exists, open_stream, read_to_end
EpOpen ==
    /\ ep.pc = "open"
    /\ ep' = IF ~IsSome(ep.data.cfb) THEN EpFail(ErrIo)
             ELSE IF "/WordDocument" \notin Unwrap(ep.data.cfb)
             THEN EpFail(ErrDocument("not a Word document (no WordDocument stream)"))
             ELSE [ep EXCEPT !.pc = "fib", !.buf = Some(ep.data.stream)]
    /\ UNCHANGED EpOthers

\* length check, flags, encryption check
EpFlags ==
    /\ ep.pc = "fib"
    /\ LET buf == Unwrap(ep.buf)
       IN ep' = IF buf.len < FibLen
                THEN EpFail(ErrDocument("WordDocument stream too short"))
                ELSE IF BitAnd(buf.flags, F_ENCRYPTED) # 0
                THEN [EpFail(ErrDocument("document is encrypted")) EXCEPT !.flags = Some(buf.flags)]
                ELSE [ep EXCEPT !.pc = "bounds", !.flags = Some(buf.flags)]
    /\ UNCHANGED EpOthers

\* text_start, text_end and their validation
EpBounds ==
    /\ ep.pc = "bounds"
    /\ LET buf == Unwrap(ep.buf)
           f == [ep EXCEPT !.text_start = Some(buf.text_start), !.text_end = Some(buf.text_end)]
       IN ep' = IF buf.text_start >= buf.len \/ buf.text_end > buf.len
                   \/ buf.text_start >= buf.text_end
                THEN [f EXCEPT !.pc = "error",
                               !.result = Some(ErrDocument("invalid text boundaries in FIB"))]
                ELSE [f EXCEPT !.pc = "decode"]
    /\ UNCHANGED EpOthers

\* extract_word8_text / extract_8bit_text, chars_to_text
EpDecode ==
    /\ ep.pc = "decode"
    /\ LET chars == Unwrap(ep.buf).units
       IN ep' = [ep EXCEPT !.pc = "done", !.chars = Some(chars),
                           !.result = Some(Ok(chars_to_text(chars)))]
    /\ UNCHANGED EpOthers

EpStreams ==
    [len : {0, 31, 32, 64},
     flags : {0, \h0100, \h1000, \h1100, \h0101},
     text_start : {0, 32, 64, 70},
     text_end : {0, 40, 64, 70},
     units : {<<97, 13>>}]
EpInputs ==
    [cfb : {None, Some({}), Some({"/WordDocument"})}, stream : EpStreams]
EpStart(d) ==
    [pc |-> "open", data |-> d, buf |-> None, flags |-> None, text_start |-> None,
     text_end |-> None, chars |-> None, result |-> None]

InitEp == (\E d \in EpInputs : ep = EpStart(d)) /\ AllIdleBut("ep")
NextEp == EpOpen \/ EpFlags \/ EpBounds \/ EpDecode

----------------------------------------------------------------------------
(* xls.rs: record types, parse_xls, parse_globals, parse_boundsheet.       *)
(* A record is its type, the length of its data and the fields the         *)
(* workbook-globals pass reads from the data.                              *)

REC_BOF == \h0809
REC_EOF == \h000A
REC_BOUNDSHEET == \h0085
REC_SST == \h00FC
REC_CONTINUE == \h003C
REC_LABELSST == \h00FD
REC_LABEL == \h0204
REC_RSTRING == \h00D6
REC_NUMBER == \h0203
REC_RK == \h027E
REC_MULRK == \h00BD
REC_FORMULA == \h0006
REC_STRING == \h0207
REC_BOOLERR == \h0205
REC_FILEPASS == \h002F
REC_CODEPAGE == \h0042

DefaultCodepage == 1252
BoundSheetHeaderLen == 8

Rec(t, n) ==
    [rec_type |-> t, len |-> n, cp |-> 0, bof_offset |-> 0, visibility |-> 0,
     sheet_type |-> 0, name |-> <<>>]
CodepageRec(cp) == [Rec(REC_CODEPAGE, 2) EXCEPT !.cp = cp]
BoundSheetRec(visibility, sheet_type) ==
    [Rec(REC_BOUNDSHEET, 9) EXCEPT !.visibility = visibility, !.sheet_type = sheet_type]

parse_boundsheet(rec, cp) ==
    IF rec.len < BoundSheetHeaderLen THEN None
    ELSE Some([name |-> rec.name, bof_offset |-> rec.bof_offset,
               visibility |-> rec.visibility, sheet_type |-> rec.sheet_type])

\* the index after the CONTINUE records that follow records[i]
RECURSIVE SkipContinues(_, _)
SkipContinues(records, j) ==
    IF j <= Len(records) /\ records[j].rec_type = REC_CONTINUE
    THEN SkipContinues(records, j + 1)
    ELSE j

\* continue_boundaries of the SST at records[i] whose CONTINUEs end before j
RECURSIVE ContinueBoundaries(_, _, _)
ContinueBoundaries(records, i, j) ==
    IF j = i + 1 THEN <<records[i].len>>
    ELSE LET b == ContinueBoundaries(records, i, j - 1)
         IN Append(b, Last(b) + records[j - 1].len)

PxOthers == <<ct, ep, df, rs, ss, sx, ds, si, rk, fs, rr, rm, pm, hl, mn, pp, hk>>

\* parse_xls up to parse_records
PxOpen ==
    /\ px.pc = "open"
    /\ px' = IF ~IsSome(px.cfb) THEN [px EXCEPT !.pc = "error", !.result = Some(ErrIo)]
             ELSE IF "/Workbook" \notin Unwrap(px.cfb) /\ "/Book" \notin Unwrap(px.cfb)
             THEN [px EXCEPT !.pc = "error",
                     !.result = Some(ErrDocument("not an Excel file (no Workbook or Book stream)"))]
             ELSE [px EXCEPT !.pc = "globals"]
    /\ UNCHANGED PxOthers

\* one iteration of the loop of parse_globals
PxGlobalsRecord ==
    /\ px.pc = "globals"
    /\ px.i <= Len(px.records)
    /\ LET rec == px.records[px.i]
           t == rec.rec_type
           next == [px EXCEPT !.i = px.i + 1]
       IN px' =
            IF t = REC_FILEPASS
            THEN [px EXCEPT !.pc = "error",
                            !.result = Some(ErrDocument("document is encrypted"))]
            ELSE IF t = REC_CODEPAGE
            THEN IF rec.len >= 2 THEN [next EXCEPT !.cp = rec.cp] ELSE next
            ELSE IF t = REC_SST
            THEN LET j == SkipContinues(px.records, px.i + 1)
                 IN [px EXCEPT !.i = j,
                               !.sst = Some(ContinueBoundaries(px.records, px.i, j))]
            ELSE IF t = REC_BOUNDSHEET
            THEN LET entry == parse_boundsheet(rec, px.cp)
                 IN IF IsSome(entry)
                    THEN [next EXCEPT !.sheet_entries = Append(px.sheet_entries, Unwrap(entry))]
                    ELSE next
            ELSE IF t = REC_EOF
            THEN [px EXCEPT !.pc = "sheets"]
            ELSE next
    /\ UNCHANGED PxOthers

\* the loop of parse_globals runs out of records
PxGlobalsEnd ==
    /\ px.pc = "globals"
    /\ px.i > Len(px.records)
    /\ px' = [px EXCEPT !.pc = "sheets"]
    /\ UNCHANGED PxOthers

\* one iteration of the loop of parse_xls over sheet_entries
PxSheet ==
    /\ px.pc = "sheets"
    /\ px.e <= Len(px.sheet_entries)
    /\ LET entry == px.sheet_entries[px.e]
           next == [px EXCEPT !.e = px.e + 1]
       IN px' = IF entry.sheet_type # 0 THEN next
                ELSE IF entry.visibility # 0 THEN next
                \* rows: what parse_sheet_substream reads at bof_offset
                ELSE [next EXCEPT !.sheets = Append(px.sheets,
                                      [name |-> entry.name, rows |-> entry.bof_offset])]
    /\ UNCHANGED PxOthers

PxReturn ==
    /\ px.pc = "sheets"
    /\ px.e > Len(px.sheet_entries)
    /\ px' = [px EXCEPT !.pc = "done", !.result = Some(Ok(px.sheets))]
    /\ UNCHANGED PxOthers

NextPx == PxOpen \/ PxGlobalsRecord \/ PxGlobalsEnd \/ PxSheet \/ PxReturn

\* A record stream of the given kinds; each BOUNDSHEET names its sheet after
\* its position and points at a substream of its own.
Positioned(kinds) ==
    [k \in DOMAIN kinds |->
        IF kinds[k].rec_type = REC_BOUNDSHEET
        THEN [kinds[k] EXCEPT !.name = <<k>>, !.bof_offset = k]
        ELSE kinds[k]]
PxStart(cfb, records) ==
    [pc |-> "open", cfb |-> cfb, records |-> records, i |-> 1, sst |-> None,
     sheet_entries |-> <<>>, cp |-> DefaultCodepage, e |-> 1, sheets |-> <<>>,
     result |-> None]

----------------------------------------------------------------------------
(* Encrypted documents: extract_plain of a .doc, parse_xls of a .xls.      *)

MaxRecords == 4
EncKinds ==
    {Rec(REC_FILEPASS, 6), Rec(REC_EOF, 0), Rec(REC_SST, 8), Rec(REC_CONTINUE, 4),
     CodepageRec(1251), BoundSheetRec(0, 0)}
InitPxEnc ==
    /\ \E kinds \in SeqsUpTo(EncKinds, MaxRecords) :
         \E cfb \in {None, Some({}), Some({"/Workbook"}), Some({"/Book"})} :
            px = PxStart(cfb, Positioned(kinds))
    /\ AllIdleBut("px")

InitEncrypted == InitEp \/ InitPxEnc
NextEncrypted == NextEp \/ NextPx
SpecEncrypted == InitEncrypted /\ [][NextEncrypted]_vars

Finished(f) == f.pc \in {"done", "error"}
IsEncryptedError(r) == r = Some(ErrDocument("document is encrypted"))

\* the FIB is there to be read and its flag bit 0x0100 is set
DocFlaggedEncrypted ==
    /\ ep.pc # "idle"
    /\ ep.data.cfb = Some({"/WordDocument"})
    /\ ep.data.stream.len >= 32
    /\ (ep.data.stream.flags \div 256) % 2 = 1

\* a FILEPASS record precedes the first EOF record of the workbook stream
XlsHasFilepass ==
    /\ px.pc # "idle"
    /\ IsSome(px.cfb) /\ Unwrap(px.cfb) # {}
    /\ \E k \in 1..Len(px.records) :
          /\ px.records[k].rec_type = REC_FILEPASS
          /\ \A j \in 1..(k - 1) : px.records[j].rec_type # REC_EOF

C6_WitnessXls ==
    /\ XlsHasFilepass
    /\ \E k \in 1..Len(px.records) : px.records[k].rec_type = REC_BOUNDSHEET
    /\ px.sheet_entries # <<>>
    /\ Finished(px)
    /\ IsEncryptedError(px.result)

----------------------------------------------------------------------------
(* xlsx.rs: discover_sheets and the loop of parse_xlsx that consumes it.   *)
(* The archive is the set of its entry paths; workbook.xml is its <sheet>  *)
(* elements and workbook.xml.rels its <Relationship> elements, with an     *)
(* absent attribute read as "" (unwrap_or_default).  A path is its         *)
(* sequence of segments, a leading "" standing for a leading '/'.          *)

WorkbookXml == <<"xl", "workbook.xml">>
WorkbookRels == <<"xl", "_rels", "workbook.xml.rels">>

RECURSIVE TrimLeadingSlashes(_)
TrimLeadingSlashes(target) ==
    IF target # <<>> /\ target[1] = "" THEN TrimLeadingSlashes(Tail(target)) ELSE target

\* the zip path of a relationship target
TargetPath(target) ==
    IF target # <<>> /\ target[1] = "" THEN TrimLeadingSlashes(target)
    ELSE <<"xl">> \o target

\* rid_to_target.iter().find(|(id, _)| id == rid)
FindTarget(rid_to_target, rid) ==
    LET k == FirstIndex(rid_to_target, LAMBDA r : r.id = rid)
    IN IF k = 0 THEN None ELSE Some(rid_to_target[k].target)

\* discover_sheets' test of a <sheet> element
KeepsSheet(el) ==
    el.state # "hidden" /\ el.name # <<>> /\ el.rid # ""

DsOthers == <<ct, ep, df, px, rs, ss, sx, si, rk, fs, rr, rm, pm, hl, mn, pp, hk>>
DsFail == [ds EXCEPT !.pc = "error", !.result = Some(ErrZip)]

DsOpenWorkbook ==
    /\ ds.pc = "workbook"
    /\ ds' = IF WorkbookXml \notin ds.archive THEN DsFail ELSE [ds EXCEPT !.pc = "elements"]
    /\ UNCHANGED DsOthers

DsSheetElement ==
    /\ ds.pc = "elements"
    /\ ds.k <= Len(ds.workbook)
    /\ LET el == ds.workbook[ds.k]
           next == [ds EXCEPT !.k = ds.k + 1]
       IN ds' = IF KeepsSheet(el)
                THEN [next EXCEPT !.sheet_entries =
                          Append(ds.sheet_entries, [name |-> el.name, rid |-> el.rid])]
                ELSE next
    /\ UNCHANGED DsOthers

DsReadRels ==
    /\ ds.pc = "elements"
    /\ ds.k > Len(ds.workbook)
    /\ ds' = IF WorkbookRels \notin ds.archive THEN DsFail
             ELSE [ds EXCEPT !.pc = "resolve",
                     !.rid_to_target =
                        SelectSeq(ds.rels, LAMBDA r : r.id # "" /\ r.target # <<>>)]
    /\ UNCHANGED DsOthers

DsResolve ==
    /\ ds.pc = "resolve"
    /\ ds.r <= Len(ds.sheet_entries)
    /\ LET entry == ds.sheet_entries[ds.r]
           target == FindTarget(ds.rid_to_target, entry.rid)
           next == [ds EXCEPT !.r = ds.r + 1]
       IN ds' = IF IsSome(target)
                THEN [next EXCEPT !.result_list = Append(ds.result_list,
                          [name |-> entry.name, path |-> TargetPath(Unwrap(target))])]
                ELSE next
    /\ UNCHANGED DsOthers

DsReturn ==
    /\ ds.pc = "resolve"
    /\ ds.r > Len(ds.sheet_entries)
    /\ ds' = [ds EXCEPT !.pc = "parse"]
    /\ UNCHANGED DsOthers

\* parse_xlsx: one iteration over sheet_info
DsParseSheet ==
    /\ ds.pc = "parse"
    /\ ds.p <= Len(ds.result_list)
    /\ LET info == ds.result_list[ds.p]
           next == [ds EXCEPT !.p = ds.p + 1]
       IN ds' = IF info.path \notin ds.archive THEN next
                ELSE [next EXCEPT !.sheets = Append(ds.sheets, [name |-> info.name, path |-> info.path])]
    /\ UNCHANGED DsOthers

DsDone ==
    /\ ds.pc = "parse"
    /\ ds.p > Len(ds.result_list)
    /\ ds' = [ds EXCEPT !.pc = "done", !.result = Some(Ok(ds.sheets))]
    /\ UNCHANGED DsOthers

NextDs ==
    DsOpenWorkbook \/ DsSheetElement \/ DsReadRels \/ DsResolve \/ DsReturn
        \/ DsParseSheet \/ DsDone

DsStart(archive, workbook, rels) ==
    [pc |-> "workbook", archive |-> archive, workbook |-> workbook, rels |-> rels,
     k |-> 1, sheet_entries |-> <<>>, rid_to_target |-> <<>>, r |-> 1,
     result_list |-> <<>>, p |-> 1, sheets |-> <<>>, result |-> None]

----------------------------------------------------------------------------
(* Which sheets of a workbook are rendered.                                *)

MaxSheets == 2
VisKinds ==
    {Rec(REC_EOF, 0), CodepageRec(1251)}
        \cup {BoundSheetRec(v, t) : v \in {0, 1, 2}, t \in {0, 2}}
InitPxVis ==
    /\ \E kinds \in SeqsUpTo(VisKinds, MaxRecords) :
          px = PxStart(Some({"/Workbook"}), Positioned(kinds))
    /\ AllIdleBut("px")

Sheet1Path == <<"xl", "worksheets", "sheet1.xml">>
Sheet2Path == <<"xl", "s2.xml">>
SheetElements ==
    [state : {"", "visible", "hidden", "veryHidden"}, rid : {"rId1", "rId2"}, name : {<<1>>}]
        \cup [state : {"", "visible", "hidden", "veryHidden"}, rid : {""}, name : {<<1>>}]
        \cup [state : {"", "visible", "hidden", "veryHidden"}, rid : {"rId1"}, name : {<<>>}]
\* each named sheet is named after its position
NamedByPosition(els) ==
    [k \in DOMAIN els |-> IF els[k].name = <<>> THEN els[k] ELSE [els[k] EXCEPT !.name = <<k>>]]
Relationships ==
    {[id |-> "rId1", target |-> <<"worksheets", "sheet1.xml">>],
     [id |-> "rId2", target |-> <<"", "xl", "s2.xml">>]}
InitDs ==
    /\ \E els \in SeqsUpTo(SheetElements, MaxSheets) :
         \E rels \in SeqsUpTo(Relationships, 2) :
           \E archive \in SUBSET {WorkbookXml, WorkbookRels, Sheet1Path, Sheet2Path} :
              ds = DsStart(archive, NamedByPosition(els), rels)
    /\ AllIdleBut("ds")

InitSheets == InitPxVis \/ InitDs
NextSheets == NextPx \/ NextDs
SpecSheets == InitSheets /\ [][NextSheets]_vars

Names(sheets) == [k \in DOMAIN sheets |-> sheets[k].name]

\* the BOUNDSHEET records of the workbook globals, which end at the first EOF
GlobalsOf(records) ==
    LET k == FirstIndex(records, LAMBDA r : r.rec_type = REC_EOF)
    IN SelectSeq(IF k = 0 THEN records ELSE Take(records, k - 1),
                 LAMBDA r : r.rec_type = REC_BOUNDSHEET)

\* a <sheet> element that names a worksheet part of the archive
Resolves(el) ==
    /\ el.name # <<>>
    /\ \E k \in 1..Len(ds.rels) :
          /\ ds.rels[k].id = el.rid
          /\ \A j \in 1..(k - 1) : ds.rels[j].id # el.rid
          /\ TargetPath(ds.rels[k].target) \in ds.archive

\* C10: the sheets rendered are the visible worksheets, in workbook order:
\* of a .xls the BOUNDSHEET entries with visibility 0 and sheet type 0, of a
\* .xlsx the sheets of workbook.xml that are neither hidden nor very hidden.
C10_VisibleSheets ==
    /\ px.pc = "done" =>
          Names(px.result[1].value) =
             Names(SelectSeq(GlobalsOf(px.records),
                             LAMBDA r : r.visibility = 0 /\ r.sheet_type = 0))
    /\ ds.pc = "done" =>
          Names(ds.result[1].value) =
             Names(SelectSeq(ds.workbook,
                             LAMBDA el : el.state \notin {"hidden", "veryHidden"}
                                           /\ Resolves(el)))

----------------------------------------------------------------------------
(* xls.rs: GridBuilder, cells_to_grid, the cell record handlers and        *)
(* parse_sheet_substream.                                                  *)
(* A substream record is its type and the fields its handler reads from    *)
(* the data: row, col, and by type sst_idx (LABELSST), text (the string of *)
(* a LABEL, RSTRING or STRING; the formatted value of a NUMBER, RK, MULRK  *)
(* entry or numeric FORMULA), last_col and n (MULRK: the last column and   *)
(* the number of entries), tag (FORMULA: "string", "bool", "empty",        *)
(* "error" or "number"; BOOLERR: "bool" or "error") and byte (the boolean).*)
(* The data of every record is as long as its handler requires.  Strings   *)
(* are sequences of code points, rows and columns count from 0 and the     *)
(* grid's sequences from 1.                                                *)

MAX_GRID_CELLS == 1000000
TrueText == <<84, 82, 85, 69>>
FalseText == <<70, 65, 76, 83, 69>>

GridBuilder_new == [cells |-> <<>>, max_row |-> 0, max_col |-> 0]

\* GridBuilder::push that leaves max_col alone
GridBuilder_push_keeps_max_col(grid, row, col, value) ==
    [cells |-> Append(grid.cells, [row |-> row, col |-> col, value |-> value]),
     max_row |-> IF row + 1 > grid.max_row THEN row + 1 ELSE grid.max_row,
     max_col |-> grid.max_col]

GridBuilder_push(grid, row, col, value) ==
    [cells |-> Append(grid.cells, [row |-> row, col |-> col, value |-> value]),
     max_row |-> IF row + 1 > grid.max_row THEN row + 1 ELSE grid.max_row,
     max_col |-> IF col + 1 > grid.max_col THEN col + 1 ELSE grid.max_col]

\* cells_to_grid without the limit on the cells allocated
cells_to_grid_unlimited(cells, max_row, max_col) ==
    [r \in 1..max_row |->
        [c \in 1..max_col |->
            LET k == LastIndex(cells, LAMBDA cell : cell.row = r - 1 /\ cell.col = c - 1)
            IN IF k = 0 THEN <<>> ELSE cells[k].value]]

\* every position holds the value of the last cell written to it
cells_to_grid(cells, max_row, max_col) ==
    IF max_row * max_col > MAX_GRID_CELLS THEN <<>>
    ELSE [r \in 1..max_row |->
            [c \in 1..max_col |->
                LET k == LastIndex(cells, LAMBDA cell : cell.row = r - 1 /\ cell.col = c - 1)
                IN IF k = 0 THEN <<>> ELSE cells[k].value]]

into_grid(grid) == cells_to_grid(grid.cells, grid.max_row, grid.max_col)

\* sst.get(sst_idx).cloned().unwrap_or_default()
SstGet(sst, sst_idx) == IF sst_idx + 1 \in DOMAIN sst THEN sst[sst_idx + 1] ELSE <<>>

handle_labelsst(rec, sst, grid) ==
    GridBuilder_push(grid, rec.row, rec.col, SstGet(sst, rec.sst_idx))
handle_label(rec, grid) == GridBuilder_push(grid, rec.row, rec.col, rec.text)
handle_number(rec, grid) == GridBuilder_push(grid, rec.row, rec.col, rec.text)
handle_rk(rec, grid) == GridBuilder_push(grid, rec.row, rec.col, rec.text)

RECURSIVE MulrkLoop(_, _, _, _)
MulrkLoop(rec, grid, c, left) ==
    IF c > rec.last_col \/ left = 0 THEN grid
    ELSE MulrkLoop(rec, GridBuilder_push(grid, rec.row, c, rec.text), c + 1, left - 1)
handle_mulrk(rec, grid) == MulrkLoop(rec, grid, rec.col, rec.n)

\* the grid and the pending string cell after a FORMULA record
handle_formula(rec, grid, pending_string_cell) ==
    IF rec.tag = "string"
    THEN [grid |-> grid, pending_string_cell |-> Some(<<rec.row, rec.col>>)]
    ELSE IF rec.tag = "bool"
    THEN [grid |-> GridBuilder_push(grid, rec.row, rec.col,
                                    IF rec.byte # 0 THEN TrueText ELSE FalseText),
          pending_string_cell |-> pending_string_cell]
    ELSE IF rec.tag = "empty"
    THEN [grid |-> GridBuilder_push(grid, rec.row, rec.col, <<>>),
          pending_string_cell |-> pending_string_cell]
    ELSE IF rec.tag = "number"
    THEN [grid |-> GridBuilder_push(grid, rec.row, rec.col, rec.text),
          pending_string_cell |-> pending_string_cell]
    ELSE [grid |-> grid, pending_string_cell |-> pending_string_cell]

\* the grid and the pending string cell after a STRING record
handle_string(rec, grid, pending_string_cell) ==
    IF IsSome(pending_string_cell)
    THEN LET cell == Unwrap(pending_string_cell)
         IN [grid |-> GridBuilder_push(grid, cell[1], cell[2], rec.text),
             pending_string_cell |-> None]
    ELSE [grid |-> grid, pending_string_cell |-> None]

handle_boolerr(rec, grid) ==
    IF rec.tag # "error"
    THEN GridBuilder_push(grid, rec.row, rec.col, IF rec.byte # 0 THEN TrueText ELSE FalseText)
    ELSE grid

----------------------------------------------------------------------------
(* sheet.rs: skip_empty_sheet, render_plain.                               *)

skip_empty_sheet(sheet) ==
    \A r \in DOMAIN sheet.rows : \A c \in DOMAIN sheet.rows[r] : Trim(sheet.rows[r][c]) = <<>>

\* row[lo..hi].join(sep), split in halves to bound the depth of the evaluation
RECURSIVE JoinRange(_, _, _, _)
JoinRange(row, sep, lo, hi) ==
    IF lo > hi THEN <<>>
    ELSE IF lo = hi THEN row[lo]
    ELSE LET mid == (lo + hi) \div 2
         IN JoinRange(row, sep, lo, mid) \o sep \o JoinRange(row, sep, mid + 1, hi)
Join(row, sep) == JoinRange(row, sep, 1, Len(row))

\* the line of a row: its cells joined by tabs and right-trimmed, left out
\* when empty
RenderRow(row) ==
    LET line == TrimEnd(Join(row, <<9>>))
    IN IF line # <<>> THEN line \o <<10>> ELSE <<>>

\* the lines of rows[lo..hi] in order (the loop over sheet.rows, split in
\* halves to bound the depth of the evaluation)
RECURSIVE RenderRowsRange(_, _, _)
RenderRowsRange(rows, lo, hi) ==
    IF lo > hi THEN <<>>
    ELSE IF lo = hi THEN RenderRow(rows[lo])
    ELSE LET mid == (lo + hi) \div 2
         IN RenderRowsRange(rows, lo, mid) \o RenderRowsRange(rows, mid + 1, hi)
RenderRows(rows) == RenderRowsRange(rows, 1, Len(rows))

RECURSIVE RenderSheets(_, _, _)
RenderSheets(sheets, i, out) ==
    IF i > Len(sheets) THEN out
    ELSE IF skip_empty_sheet(sheets[i]) THEN RenderSheets(sheets, i + 1, out)
    ELSE LET header ==
                IF Len(sheets) > 1
                THEN (IF i > 1 THEN <<10>> ELSE <<>>)
                        \o <<45, 45, 45, 32>> \o sheets[i].name \o <<32, 45, 45, 45, 10>>
                ELSE <<>>
         IN RenderSheets(sheets, i + 1, out \o header \o RenderRows(sheets[i].rows))

render_plain(sheets) == RenderSheets(sheets, 1, <<>>)

----------------------------------------------------------------------------
(* xls.rs: parse_sheet_substream for one sheet entry of parse_xls, and     *)
(* extract_plain's rendering of the sheets parsed so far with it.          *)
(* `prior` is parse_xls's `sheets` before this entry, `records` the        *)
(* records found from bof_offset on.                                       *)

SsOthers == <<ct, ep, df, px, rs, sx, ds, si, rk, fs, rr, rm, pm, hl, mn, pp, hk>>

\* "Verify BOF"
SsVerifyBof ==
    /\ ss.pc = "bof"
    /\ ss' = IF ss.records = <<>> \/ ss.records[1].rec_type # REC_BOF
             THEN [ss EXCEPT !.pc = "parsed", !.rows = Some(<<>>)]
             ELSE [ss EXCEPT !.pc = "loop", !.offset = 2]
    /\ UNCHANGED SsOthers

\* one iteration of the record loop
SsRecord ==
    /\ ss.pc = "loop"
    /\ ss.offset <= Len(ss.records)
    /\ LET rec == ss.records[ss.offset]
           t == rec.rec_type
           next == [ss EXCEPT !.offset = ss.offset + 1]
       IN ss' =
            IF t = REC_EOF THEN [ss EXCEPT !.pc = "return"]
            ELSE IF t = REC_LABELSST
            THEN [next EXCEPT !.grid = handle_labelsst(rec, ss.sst, ss.grid)]
            ELSE IF t = REC_LABEL \/ t = REC_RSTRING
            THEN [next EXCEPT !.grid = handle_label(rec, ss.grid)]
            ELSE IF t = REC_NUMBER THEN [next EXCEPT !.grid = handle_number(rec, ss.grid)]
            ELSE IF t = REC_RK THEN [next EXCEPT !.grid = handle_rk(rec, ss.grid)]
            ELSE IF t = REC_MULRK THEN [next EXCEPT !.grid = handle_mulrk(rec, ss.grid)]
            ELSE IF t = REC_FORMULA
            THEN LET h == handle_formula(rec, ss.grid, ss.pending_string_cell)
                 IN [next EXCEPT !.grid = h.grid, !.pending_string_cell = h.pending_string_cell]
            ELSE IF t = REC_STRING
            THEN LET h == handle_string(rec, ss.grid, ss.pending_string_cell)
                 IN [next EXCEPT !.grid = h.grid, !.pending_string_cell = h.pending_string_cell]
            ELSE IF t = REC_BOOLERR THEN [next EXCEPT !.grid = handle_boolerr(rec, ss.grid)]
            ELSE IF t # REC_CONTINUE THEN [next EXCEPT !.pending_string_cell = None]
            ELSE next
    /\ UNCHANGED SsOthers

\* the loop runs out of records
SsEnd ==
    /\ ss.pc = "loop"
    /\ ss.offset > Len(ss.records)
    /\ ss' = [ss EXCEPT !.pc = "return"]
    /\ UNCHANGED SsOthers

\* grid.into_grid()
SsReturn ==
    /\ ss.pc = "return"
    /\ ss' = [ss EXCEPT !.pc = "parsed", !.rows = Some(into_grid(ss.grid))]
    /\ UNCHANGED SsOthers

\* xls::extract_plain: render_plain of the sheets
SsRenderPlain ==
    /\ ss.pc = "parsed"
    /\ ss' = [ss EXCEPT !.pc = "done",
                !.text = Some(render_plain(Append(ss.prior,
                                  [name |-> ss.name, rows |-> Unwrap(ss.rows)])))]
    /\ UNCHANGED SsOthers

NextSs == SsVerifyBof \/ SsRecord \/ SsEnd \/ SsReturn \/ SsRenderPlain

CellRec(t, row, col, text) ==
    [rec_type |-> t, row |-> row, col |-> col, text |-> text, sst_idx |-> 0,
     last_col |-> col, n |-> 1, tag |-> "", byte |-> 1]
SsStart(prior, name, sst, records) ==
    [pc |-> "bof", prior |-> prior, name |-> name, sst |-> sst, records |-> records,
     offset |-> 1, pending_string_cell |-> None, grid |-> GridBuilder_new,
     rows |-> None, text |-> None]

----------------------------------------------------------------------------
(* The STRING record of a string-valued FORMULA.                           *)

MaxSubstream == 3
UnknownRecType == \h0200
BofRec == CellRec(REC_BOF, 0, 0, <<>>)
EofRec == CellRec(REC_EOF, 0, 0, <<>>)
StringFormula == [CellRec(REC_FORMULA, 0, 0, <<>>) EXCEPT !.tag = "string"]
PendingKinds ==
    {StringFormula,
     [CellRec(REC_FORMULA, 1, 0, <<49>>) EXCEPT !.tag = "number"],
     CellRec(REC_NUMBER, 1, 0, <<49>>),
     CellRec(REC_RK, 1, 0, <<49>>),
     [CellRec(REC_MULRK, 1, 0, <<49>>) EXCEPT !.last_col = 1, !.n = 2],
     CellRec(REC_LABELSST, 1, 0, <<>>),
     CellRec(REC_LABEL, 1, 0, <<97>>),
     [CellRec(REC_BOOLERR, 1, 0, <<>>) EXCEPT !.tag = "bool"],
     CellRec(UnknownRecType, 0, 0, <<>>),
     CellRec(REC_CONTINUE, 0, 0, <<>>),
     CellRec(REC_STRING, 0, 0, <<115>>),
     EofRec}
InitPending ==
    /\ \E body \in SeqsUpTo(PendingKinds, MaxSubstream) :
         \E head \in {<<BofRec>>, <<>>} :
            ss = SsStart(<<>>, <<83>>, <<<<116>>>>, head \o body)
    /\ AllIdleBut("ss")
NextPending == NextSs
SpecPending == InitPending /\ [][NextPending]_vars

\* the record that precedes records[k] in the substream, CONTINUE records aside
PrevRecord(records, k) ==
    LET js == {j \in 2..(k - 1) : records[j].rec_type # REC_CONTINUE}
    IN IF js = {} THEN None ELSE Some(records[CHOOSE j \in js : \A i \in js : i <= j])

FollowsStringFormula(records, k) ==
    LET prev == PrevRecord(records, k)
    IN IsSome(prev) /\ Unwrap(prev).rec_type = REC_FORMULA /\ Unwrap(prev).tag = "string"

\* C8: a STRING record places a cell only when the record before it, CONTINUE
\* records aside, is a string-valued FORMULA; any other record in between (a
\* cell record or an unknown one) clears the pending cell.
C8_StringAfterFormula ==
    [][(/\ ss.pc = "loop"
        /\ ss.offset <= Len(ss.records)
        /\ ss.records[ss.offset].rec_type = REC_STRING
        /\ ss'.grid.cells # ss.grid.cells)
          => FollowsStringFormula(ss.records, ss.offset)]_vars

----------------------------------------------------------------------------
(* xlsx.rs: col_ref_to_index, parse_row, parse_sheet_xml.                  *)
(* The sheet XML is its sequence of <row> elements: `start` tells a start  *)
(* tag from a self-closing <row/>, `cells` are its <c> elements, each with *)
(* the `r` attribute (None when absent) and the value parse_cell returns   *)
(* (the empty string for a self-closing <c/>).                             *)

IsAsciiAlphabetic(ch) == ch \in 65..90 \/ ch \in 97..122
ToAsciiUppercase(ch) == IF ch \in 97..122 THEN ch - 32 ELSE ch

RECURSIVE ColRefLoop(_, _)
ColRefLoop(cell_ref, col) ==
    IF cell_ref = <<>> \/ ~IsAsciiAlphabetic(Head(cell_ref)) THEN col
    ELSE ColRefLoop(Tail(cell_ref), col * 26 + (ToAsciiUppercase(Head(cell_ref)) - 65) + 1)

\* saturating_sub(1) of the 1-based column
col_ref_to_index(cell_ref) ==
    LET col == ColRefLoop(cell_ref, 0) IN IF col = 0 THEN 0 ELSE col - 1

\* the (column, value) pairs of a row
RECURSIVE ParseRowLoop(_, _)
ParseRowLoop(elements, cells) ==
    IF elements = <<>> THEN cells
    ELSE LET e == Head(elements)
             col_idx == IF IsSome(e.r) THEN col_ref_to_index(Unwrap(e.r)) ELSE Len(cells)
         IN ParseRowLoop(Tail(elements), Append(cells, [col |-> col_idx, value |-> e.value]))
parse_row(row) == ParseRowLoop(row.cells, <<>>)

RECURSIVE MaxColOver(_, _)
MaxColOver(row, max_col) ==
    IF row = <<>> THEN max_col
    ELSE MaxColOver(Tail(row), IF Head(row).col + 1 > max_col THEN Head(row).col + 1 ELSE max_col)

\* a sparse row as a row of max_col strings, the last value written to a column
Densify(sparse_row, max_col) ==
    [c \in 1..max_col |->
        LET k == LastIndex(sparse_row, LAMBDA cell : cell.col = c - 1)
        IN IF k = 0 THEN <<>> ELSE sparse_row[k].value]

SxOthers == <<ct, ep, df, px, rs, ss, ds, si, rk, fs, rr, rm, pm, hl, mn, pp, hk>>

\* one <row> event of the reader
SxRowEvent ==
    /\ sx.pc = "events"
    /\ sx.k <= Len(sx.xml)
    /\ LET el == sx.xml[sx.k]
           row == parse_row(el)
       IN sx' = IF el.start
                THEN [sx EXCEPT !.k = sx.k + 1,
                                !.max_col = MaxColOver(row, sx.max_col),
                                !.sparse_rows = Append(sx.sparse_rows, row)]
                ELSE [sx EXCEPT !.k = sx.k + 1]
    /\ UNCHANGED SxOthers

\* Eof: the sparse rows are made dense
SxDensify ==
    /\ sx.pc = "events"
    /\ sx.k > Len(sx.xml)
    /\ sx' = [sx EXCEPT !.pc = "done",
                !.rows = Some([r \in DOMAIN sx.sparse_rows |->
                                  Densify(sx.sparse_rows[r], sx.max_col)])]
    /\ UNCHANGED SxOthers

NextSx == SxRowEvent \/ SxDensify

SxStart(xml) ==
    [pc |-> "events", xml |-> xml, k |-> 1, sparse_rows |-> <<>>, max_col |-> 0,
     rows |-> None]

----------------------------------------------------------------------------
(* Sheet grids.                                                            *)

MaxRowElements == 2
MaxRowCells == 2
FarIndex == 1023
GridKinds ==
    {CellRec(REC_LABEL, r, c, <<97>>) : r \in {0, 1, FarIndex}, c \in {0, 1, FarIndex}}
        \cup {CellRec(REC_NUMBER, 0, 0, <<49>>), EofRec}
InitSsGrid ==
    /\ \E body \in SeqsUpTo(GridKinds, MaxSubstream) :
         \E head \in {<<BofRec>>, <<>>} :
            ss = SsStart(<<>>, <<83>>, <<>>, head \o body)
    /\ AllIdleBut("ss")

\* <c> elements: "x" without r, an empty cell at r = "A1", "y" at r = "AA3"
CellElements ==
    {[r |-> None, value |-> <<120>>], [r |-> Some(<<65, 49>>), value |-> <<>>],
     [r |-> Some(<<65, 65, 51>>), value |-> <<121>>]}
\* <row>...</row> with its <c> children, or the childless <row/>
RowElements ==
    [start : {TRUE}, cells : SeqsUpTo(CellElements, MaxRowCells)]
        \cup {[start |-> FALSE, cells |-> <<>>]}
InitSx ==
    /\ \E xml \in SeqsUpTo(RowElements, MaxRowElements) : sx = SxStart(xml)
    /\ AllIdleBut("sx")

InitGrid == InitSsGrid \/ InitSx
NextGrid == NextSs \/ NextSx
SpecGrid == InitGrid /\ [][NextGrid]_vars

\* The cells a sheet records, in order, each with its row and column.
\* xls: the cell records between the BOF and the first EOF.
XlsCells(records) ==
    IF records = <<>> \/ records[1].rec_type # REC_BOF THEN <<>>
    ELSE LET k == FirstIndex(records, LAMBDA rec : rec.rec_type = REC_EOF)
             body == SubSeq(records, 2, IF k = 0 THEN Len(records) ELSE k - 1)
         IN [i \in DOMAIN body |->
                [row |-> body[i].row, col |-> body[i].col, value |-> body[i].text]]

\* xlsx: the row of a cell is the place of its <row> among the start-tag
\* rows, its column the one of its r attribute or else its place in the row.
ColumnLetters(ref) ==
    IF Len(ref) = 3 THEN 26 ELSE ref[1] - 65
RowCells(el, row) ==
    [i \in DOMAIN el.cells |->
        [row |-> row,
         col |-> IF IsSome(el.cells[i].r) THEN ColumnLetters(Unwrap(el.cells[i].r)) ELSE i - 1,
         value |-> el.cells[i].value]]
RECURSIVE XlsxCellsFrom(_, _)
XlsxCellsFrom(xml, row) ==
    IF xml = <<>> THEN <<>>
    ELSE IF Head(xml).start
    THEN RowCells(Head(xml), row) \o XlsxCellsFrom(Tail(xml), row + 1)
    ELSE XlsxCellsFrom(Tail(xml), row)
XlsxCells(xml) == XlsxCellsFrom(xml, 0)

Width(cells) ==
    IF cells = <<>> THEN 0
    ELSE 1 + (CHOOSE m \in {cells[i].col : i \in DOMAIN cells} :
                 \A i \in DOMAIN cells : cells[i].col <= m)
Height(cells) ==
    IF cells = <<>> THEN 0
    ELSE 1 + (CHOOSE m \in {cells[i].row : i \in DOMAIN cells} :
                 \A i \in DOMAIN cells : cells[i].row <= m)
RecordedAt(cells, r, c) == {i \in DOMAIN cells : cells[i].row = r /\ cells[i].col = c}
InGrid(rows, r, c) == r + 1 \in DOMAIN rows /\ c + 1 \in DOMAIN rows[r + 1]

\* all rows as long as the largest column seen plus 1, every recorded value
\* at its position, the empty string everywhere else
DenseRectangle(rows, cells) ==
    /\ \A r \in DOMAIN rows : Len(rows[r]) = Width(cells)
    /\ \A i \in DOMAIN cells :
          /\ InGrid(rows, cells[i].row, cells[i].col)
          /\ rows[cells[i].row + 1][cells[i].col + 1] = cells[i].value
    /\ \A r \in DOMAIN rows : \A c \in DOMAIN rows[r] :
          RecordedAt(cells, r - 1, c - 1) = {} => rows[r][c] = <<>>

\* the same, a position recorded more than once holding the last of its values
DenseRectangleLastWins(rows, cells) ==
    /\ \A r \in DOMAIN rows : Len(rows[r]) = Width(cells)
    /\ \A i \in DOMAIN cells :
          /\ InGrid(rows, cells[i].row, cells[i].col)
          /\ (\A j \in RecordedAt(cells, cells[i].row, cells[i].col) : j <= i)
                => rows[cells[i].row + 1][cells[i].col + 1] = cells[i].value
    /\ \A r \in DOMAIN rows : \A c \in DOMAIN rows[r] :
          RecordedAt(cells, r - 1, c - 1) = {} => rows[r][c] = <<>>

----------------------------------------------------------------------------
(* Control characters in the text of extract_plain.                        *)

MaxCtl == 4
CtlTokens ==
    {<<\h01>>, <<\h07>>, <<\h0A>>, <<\h0C>>, <<\h0D>>, <<\h13>>, <<\h14>>, <<\h15>>,
     <<\h1F>>, <<97>>}
CtFeedCtl == \E tok \in CtlTokens : CtFeed(tok, MaxCtl)

TextKinds ==
    {CellRec(REC_LABEL, 0, 0, <<97>>), CellRec(REC_LABEL, 0, 1, <<97, \h0D, 98>>),
     CellRec(REC_LABEL, 1, 0, <<\h01>>), CellRec(REC_LABEL, 0, 1, <<\h09>>),
     CellRec(REC_LABELSST, 1, 1, <<>>), CellRec(REC_NUMBER, 0, 0, <<49>>), EofRec}
InitSsText ==
    /\ \E body \in SeqsUpTo(TextKinds, MaxSubstream) :
         \E head \in {<<BofRec>>, <<>>} :
           \E name \in {<<83>>, <<83, \h0B>>} :
             \E prior \in {<<>>, <<[name |-> <<80>>, rows |-> << << <<112>> >> >>]>>} :
                ss = SsStart(prior, name, <<<<\h07>>>>, head \o body)
    /\ AllIdleBut("ss")

InitText == InitDoc \/ InitSsText
NextText == CtFeedCtl \/ CtFinish \/ NextSs
SpecText == InitText /\ [][NextText]_vars

NoBadControl(text) == \A i \in DOMAIN text : ~IsBadControl(text[i])

\* C5: the text extract_plain returns holds no C0 control character other
\* than tab and newline: the text of a .doc whatever code units occur inside
\* or outside fields, and the text of a spreadsheet whatever characters its
\* cell strings and sheet names hold.
C5_NoControlChars ==
    /\ ct.pc = "done" => NoBadControl(ct.output)
    /\ ss.pc = "done" => NoBadControl(Unwrap(ss.text))

----------------------------------------------------------------------------
(* codepage.rs: decode_byte; xls.rs: parse_sst, read_biff8_string.         *)
(* `data` is the merged SST + CONTINUE buffer as bytes and                 *)
(* `continue_boundaries` the offsets parse_globals records: the end of the *)
(* SST record and of each CONTINUE record.  Offsets count from 0, so the   *)
(* byte at offset p is data[p + 1].                                        *)

\* Windows-1252, the encoding of codepage 1252: ASCII and 0xA0..0xFF map to
\* themselves and 0x80 to the euro sign; the model draws no other byte.
decode_byte(byte, codepage) ==
    IF byte < \h80 THEN byte
    ELSE IF byte = \h80 THEN \h20AC
    ELSE byte

ByteAt(data, p) == data[p + 1]
U16At(data, p) == ByteAt(data, p) + 256 * ByteAt(data, p + 1)
U32At(data, p) == U16At(data, p) + 65536 * U16At(data, p + 2)

RsOthers == <<ct, ep, df, px, ss, sx, ds, si, rk, fs, rr, rm, pm, hl, mn, pp, hk>>

\* parse_sst up to its loop
RsParseSst ==
    /\ rs.pc = "sst"
    /\ rs' = IF Len(rs.data) < 8 THEN [rs EXCEPT !.pc = "done"]
             ELSE [rs EXCEPT !.pc = "next", !.unique_count = U32At(rs.data, 4), !.pos = 8]
    /\ UNCHANGED RsOthers

\* read_biff8_string up to its character loop: the header and the optional
\* rich-run count and extension length; or the early return
ReadHeader(f) ==
    LET data == f.data
        start == f.pos
        early == [f EXCEPT !.pc = "next", !.strings = Append(f.strings, <<>>),
                           !.pos = Len(data), !.n = f.n + 1]
    IN IF start + 3 > Len(data) THEN early
       ELSE LET char_count == U16At(data, start)
                flags == ByteAt(data, start + 2)
                has_ext == BitAnd(flags, 4) # 0
                has_rich == BitAnd(flags, 8) # 0
                pos1 == start + 3
                pos2 == IF has_rich THEN pos1 + 2 ELSE pos1
                pos3 == IF has_ext THEN pos2 + 4 ELSE pos2
            IN IF has_rich /\ pos1 + 2 > Len(data) THEN early
               ELSE IF has_ext /\ pos2 + 4 > Len(data) THEN early
               ELSE [f EXCEPT !.pc = "chars",
                              !.rich_runs = IF has_rich THEN U16At(data, pos1) ELSE 0,
                              !.ext_len = IF has_ext THEN U32At(data, pos2) ELSE 0,
                              !.rpos = pos3,
                              !.result = <<>>,
                              !.chars_remaining = char_count,
                              !.current_unicode = (BitAnd(flags, 1) # 0),
                              !.bi = 0]

\* the loop of parse_sst: the next string, if any
RsNextString ==
    /\ rs.pc = "next"
    /\ rs' = IF rs.n >= rs.unique_count \/ rs.pos + 3 > Len(rs.data)
             THEN [rs EXCEPT !.pc = "done"]
             ELSE ReadHeader(rs)
    /\ UNCHANGED RsOthers

\* "Advance cursor past boundaries we've already passed"
RECURSIVE AdvanceCursor(_, _, _)
AdvanceCursor(continue_boundaries, bi, pos) ==
    IF bi < Len(continue_boundaries) /\ continue_boundaries[bi + 1] < pos
    THEN AdvanceCursor(continue_boundaries, bi + 1, pos)
    ELSE bi

\* the loops over chars_to_read characters
RECURSIVE ReadUnicode(_, _)
ReadUnicode(f, left) ==
    IF left = 0 \/ f.rpos + 2 > Len(f.data) THEN f
    ELSE LET ch == CharFromU32(U16At(f.data, f.rpos))
         IN ReadUnicode([f EXCEPT !.result = IF IsSome(ch) THEN Append(f.result, Unwrap(ch))
                                             ELSE f.result,
                                  !.rpos = f.rpos + 2], left - 1)
RECURSIVE ReadCompressed(_, _)
ReadCompressed(f, left) ==
    IF left = 0 \/ f.rpos >= Len(f.data) THEN f
    ELSE ReadCompressed([f EXCEPT !.result = Append(f.result,
                                      decode_byte(ByteAt(f.data, f.rpos), f.cp)),
                                  !.rpos = f.rpos + 1], left - 1)

\* one iteration of the character loop of read_biff8_string
CharsIteration(f) ==
    LET b == f.continue_boundaries
        bi1 == AdvanceCursor(b, f.bi, f.rpos)
        at == bi1 < Len(b) /\ b[bi1 + 1] = f.rpos
        g == IF at
             THEN [f EXCEPT !.current_unicode = (BitAnd(ByteAt(f.data, f.rpos), 1) # 0),
                            !.rpos = f.rpos + 1, !.bi = bi1 + 1]
             ELSE [f EXCEPT !.bi = bi1]
        next_boundary == IF g.bi < Len(b) THEN b[g.bi + 1] ELSE Len(f.data)
        bytes_available == IF next_boundary > g.rpos THEN next_boundary - g.rpos ELSE 0
        chars_to_read == IF g.current_unicode
                         THEN Min(g.chars_remaining, bytes_available \div 2)
                         ELSE Min(g.chars_remaining, bytes_available)
        h == IF g.current_unicode THEN ReadUnicode(g, chars_to_read)
             ELSE ReadCompressed(g, chars_to_read)
    IN [h EXCEPT !.chars_remaining = g.chars_remaining - chars_to_read]

RsCharsIteration ==
    /\ rs.pc = "chars"
    /\ rs.chars_remaining > 0 /\ rs.rpos < Len(rs.data)
    /\ rs' = CharsIteration(rs)
    /\ UNCHANGED RsOthers

\* the character loop ends: skip the rich runs and the extension, return
RsStringEnd ==
    /\ rs.pc = "chars"
    /\ ~(rs.chars_remaining > 0 /\ rs.rpos < Len(rs.data))
    /\ rs' = [rs EXCEPT !.pc = "next", !.strings = Append(rs.strings, rs.result),
                        !.pos = rs.rpos + rs.rich_runs * 4 + rs.ext_len, !.n = rs.n + 1]
    /\ UNCHANGED RsOthers

NextRs == RsParseSst \/ RsNextString \/ RsCharsIteration \/ RsStringEnd

RsStart(data, continue_boundaries) ==
    [pc |-> "sst", data |-> data, continue_boundaries |-> continue_boundaries,
     cp |-> DefaultCodepage, unique_count |-> 0, pos |-> 0, n |-> 0, strings |-> <<>>,
     rich_runs |-> 0, ext_len |-> 0, rpos |-> 0, result |-> <<>>, chars_remaining |-> 0,
     current_unicode |-> FALSE, bi |-> 0]

----------------------------------------------------------------------------
(* Shared strings across a CONTINUE boundary.                              *)
(* The buffer holds two strings.  The first is written from `units` code   *)
(* units, in the encoding of its header flag up to the boundary before     *)
(* unit cut + 1 (cut = -1: no boundary inside it) and in the encoding of   *)
(* the grbit byte after it; it may carry one rich-text run, and the record *)
(* may end with it.  The second is the compressed string "Z".              *)

MaxChars == 3
SstUnits == {\h41, \h20AC, \h263A, \hD83D, \hDE00}
Compressible(u) == u < \h80 \/ u = \h20AC
EncodeCompressed(u) == IF u = \h20AC THEN \h80 ELSE u
EncodeUnits(units, unicode) ==
    IF unicode THEN Concat([i \in DOMAIN units |-> <<units[i] % 256, units[i] \div 256>>])
    ELSE [i \in DOMAIN units |-> EncodeCompressed(units[i])]
StringHeader(in) ==
    <<Len(in.units) % 256, Len(in.units) \div 256,
      (IF in.unicode THEN 1 ELSE 0) + (IF in.rich THEN 8 ELSE 0)>>
        \o (IF in.rich THEN <<1, 0>> ELSE <<>>)
BeforeBoundary(in) ==
    StringHeader(in)
        \o EncodeUnits(IF in.cut < 0 THEN in.units ELSE Take(in.units, in.cut), in.unicode)
AfterBoundary(in) ==
    (IF in.cut < 0 THEN <<>>
     ELSE <<in.grbit>> \o EncodeUnits(Drop(in.units, in.cut), in.grbit = 1))
        \o (IF in.rich THEN <<0, 0, 0, 0>> ELSE <<>>)
SecondString == <<1, 0, 0, \h5A>>
SstHeader == <<2, 0, 0, 0, 2, 0, 0, 0>>
SstData(in) == SstHeader \o BeforeBoundary(in) \o AfterBoundary(in) \o SecondString
SstBoundaries(in) ==
    (IF in.cut < 0 THEN <<>> ELSE <<Len(SstHeader \o BeforeBoundary(in))>>)
        \o (IF in.record_ends
            THEN <<Len(SstHeader \o BeforeBoundary(in) \o AfterBoundary(in))>> ELSE <<>>)
        \o <<Len(SstData(in))>>
SstInputs ==
    {in \in [units : SeqsUpTo(SstUnits, MaxChars) \ {<<>>}, unicode : BOOLEAN,
             cut : -1..(MaxChars - 1), grbit : {0, 1}, rich : BOOLEAN,
             record_ends : BOOLEAN] :
        /\ in.cut < Len(in.units)
        /\ in.cut < 0 => in.grbit = 0
        /\ \A i \in DOMAIN in.units :
              \/ Compressible(in.units[i])
              \/ IF in.cut < 0 \/ i <= in.cut THEN in.unicode ELSE in.grbit = 1}

InitSst ==
    /\ \E in \in SstInputs :
          rs = [RsStart(SstData(in), SstBoundaries(in)) EXCEPT !.pc = "sst"] @@ [input |-> in]
    /\ AllIdleBut("rs")
NextSst == NextRs
SpecSst == InitSst /\ [][NextSst]_vars

\* the first string has been returned
FirstStringRead == rs.pc \in {"next", "done"} /\ Len(rs.strings) >= 1
CrossesBoundary == rs.pc # "idle" /\ rs.input.cut >= 0

\* C7: a string whose characters cross a CONTINUE boundary is returned as
\* its char_count characters, those before the boundary followed by those
\* after the grbit byte in the encoding that byte gives, with the offset of
\* the first byte after the string, so that the next string is read in full.
C7_StringAcrossBoundary ==
    (CrossesBoundary /\ FirstStringRead) =>
        /\ rs.strings[1] = rs.input.units
        /\ Len(rs.strings) = 1 =>
              rs.pos = Len(SstHeader \o BeforeBoundary(rs.input) \o AfterBoundary(rs.input))
        /\ rs.pc = "done" => rs.strings = <<rs.input.units, <<\h5A>>>>

-----------------------------------------------------------------------------
(* dateconv.rs: serial_to_iso.                                             *)
(* An f64 is NaN, an infinity or a finite number; a finite number is held  *)
(* as its decimal expansion: sign, whole part and the fraction             *)
(* num / 10^len (num without trailing zero, num = 0 only with len = 0).    *)

NaN == [kind |-> "nan"]
PosInf == [kind |-> "inf", neg |-> FALSE]
NegInf == [kind |-> "inf", neg |-> TRUE]
Finite(neg, whole, num, len) ==
    [kind |-> "finite", neg |-> neg, whole |-> whole, num |-> num, len |-> len]
Whole(n) == Finite(FALSE, n, 0, 0)

RECURSIVE Pow10(_)
Pow10(n) == IF n = 0 THEN 1 ELSE 10 * Pow10(n - 1)

\* format!("{}", n) of a non-negative integer
RECURSIVE Digits(_)
Digits(n) == IF n < 10 THEN <<48 + n>> ELSE Append(Digits(n \div 10), 48 + (n % 10))

\* format!("{n:0w$}")
RECURSIVE ZeroPad(_, _)
ZeroPad(text, w) == IF Len(text) >= w THEN text ELSE ZeroPad(<<48>> \o text, w)
Pad2(n) == ZeroPad(Digits(n), 2)
Pad4(n) == ZeroPad(Digits(n), 4)

is_nan(x) == x.kind = "nan"
is_infinite(x) == x.kind = "inf"
IsZero(x) == x.kind = "finite" /\ x.whole = 0 /\ x.num = 0
\* x < 0.0
IsNegative(x) ==
    \/ x.kind = "inf" /\ x.neg
    \/ x.kind = "finite" /\ x.neg /\ ~IsZero(x)

\* serial - serial.floor() of a serial that is not negative
FracOf(x) == [num |-> x.num, len |-> x.len]
\* frac > 0.0
FracPositive(frac) == frac.num > 0
\* frac.abs() < 1e-10
FracNegligible(frac) ==
    IF frac.len <= 10 THEN frac.num = 0 ELSE frac.num < Pow10(frac.len - 10)

\* Check if a year is a leap year in the proleptic calendar of every fourth year.
is_leap_year_every_fourth(year) == year % 4 = 0

is_leap_year(year) ==
    (year % 4 = 0 /\ year % 100 # 0) \/ year % 400 = 0

days_in_year(year) == IF is_leap_year(year) THEN 366 ELSE 365

month_days(year) ==
    IF is_leap_year(year)
    THEN <<31, 29, 31, 30, 31, 30, 31, 31, 30, 31, 30, 31>>
    ELSE <<31, 28, 31, 30, 31, 30, 31, 31, 30, 31, 30, 31>>

\* "Advance by months": for &md in &month_days
RECURSIVE MonthLoop(_, _, _, _)
MonthLoop(md, i, days_remaining, month) ==
    IF i > Len(md) \/ days_remaining < md[i]
    THEN [month |-> month, days_remaining |-> days_remaining]
    ELSE MonthLoop(md, i + 1, days_remaining - md[i], month + 1)

\* (frac * 86400.0).round(), halves away from zero
TotalSeconds(frac) ==
    IF frac.len <= 2 THEN frac.num * 864 * Pow10(2 - frac.len)
    ELSE (2 * frac.num * 864 + Pow10(frac.len - 2)) \div (2 * Pow10(frac.len - 2))

frac_to_hms(frac) ==
    LET total_seconds == TotalSeconds(frac)
    IN [h |-> (total_seconds \div 3600) % 24,
        m |-> (total_seconds % 3600) \div 60,
        s |-> total_seconds % 60]

HmsText(t) == Pad2(t.h) \o <<58>> \o Pad2(t.m) \o <<58>> \o Pad2(t.s)
format_time_only(frac) == HmsText(frac_to_hms(frac))

\* f64::to_string
F64ToString(val) ==
    IF is_nan(val) THEN <<78, 97, 78>>
    ELSE IF is_infinite(val)
         THEN (IF val.neg THEN <<45>> ELSE <<>>) \o <<105, 110, 102>>
    ELSE (IF val.neg THEN <<45>> ELSE <<>>) \o Digits(val.whole)
            \o (IF val.len = 0 THEN <<>>
                ELSE <<46>> \o ZeroPad(Digits(val.num), val.len))

format_fallback(val) ==
    IF val.kind = "finite" /\ val.num = 0
    THEN (IF val.neg /\ val.whole # 0 THEN <<45>> ELSE <<>>) \o Digits(val.whole)
    ELSE F64ToString(val)

DateText(year, month, day) ==
    Pad4(year) \o <<45>> \o Pad2(month) \o <<45>> \o Pad2(day)

\* "Cap at year 9999"
Year9999Cap == 2958465

SiOthers == <<ct, ep, df, px, rs, ss, sx, ds, rk, fs, rr, rm, pm, hl, mn, pp, hk>>
SiReturn(text) == [si EXCEPT !.pc = "done", !.result = Some(text)]

\* serial_to_iso up to the year loop of serial_to_ymd
\* the cap taken to exclude its own day
AfterYear9999_from_cap(day_serial) == day_serial >= Year9999Cap
\* the cap at year 9999
AfterYear9999(day_serial) == day_serial > Year9999Cap

SiEnter ==
    /\ si.pc = "call"
    /\ LET serial == si.serial
       IN si' =
            IF IsNegative(serial) \/ is_nan(serial) \/ is_infinite(serial)
            THEN SiReturn(format_fallback(serial))
            ELSE LET day_serial == serial.whole
                     frac == FracOf(serial)
                 IN IF day_serial = 0
                    THEN IF FracPositive(frac)
                         THEN SiReturn(format_time_only(frac))
                         ELSE SiReturn(format_fallback(serial))
                    ELSE IF AfterYear9999(day_serial)
                    THEN SiReturn(format_fallback(serial))
                    ELSE IF day_serial = 60
                    THEN [si EXCEPT !.pc = "ymd", !.day_serial = day_serial,
                                    !.frac = frac, !.year = 1900, !.month = 2,
                                    !.day = 29]
                    ELSE LET adjusted == IF day_serial > 60 THEN day_serial - 1
                                         ELSE day_serial
                         IN [si EXCEPT !.pc = "years", !.day_serial = day_serial,
                                       !.frac = frac,
                                       !.days_remaining = adjusted - 1,
                                       !.year = 1900]
    /\ UNCHANGED SiOthers

\* serial_to_ymd, "Advance by years": one iteration that does not break
SiYear ==
    /\ si.pc = "years"
    /\ si.days_remaining >= days_in_year(si.year)
    /\ si' = [si EXCEPT !.days_remaining = @ - days_in_year(si.year),
                        !.year = @ + 1]
    /\ UNCHANGED SiOthers

\* serial_to_ymd from the break of the year loop to its return
SiMonths ==
    /\ si.pc = "years"
    /\ si.days_remaining < days_in_year(si.year)
    /\ LET r == MonthLoop(month_days(si.year), 1, si.days_remaining, 1)
       IN si' = [si EXCEPT !.pc = "ymd", !.month = r.month,
                           !.day = r.days_remaining + 1]
    /\ UNCHANGED SiOthers

\* serial_to_iso after serial_to_ymd
SiFormat ==
    /\ si.pc = "ymd"
    /\ si' = IF FracNegligible(si.frac)
             THEN SiReturn(DateText(si.year, si.month, si.day))
             ELSE SiReturn(DateText(si.year, si.month, si.day) \o <<32>>
                              \o HmsText(frac_to_hms(si.frac)))
    /\ UNCHANGED SiOthers

NextSi == SiEnter \/ SiYear \/ SiMonths \/ SiFormat

SiStart(serial) ==
    [pc |-> "call", serial |-> serial, day_serial |-> 0,
     frac |-> [num |-> 0, len |-> 0], days_remaining |-> 0, year |-> 0,
     month |-> 0, day |-> 0, result |-> None]

-----------------------------------------------------------------------------
(* Serial dates.                                                           *)

\* every whole serial of the first years, then the turns of months,
\* years and centuries up to the last day of 9999
MaxSerial == 1600
Landmarks ==
    {36525, 36526, 36585, 36586, 45292, 73109, 73110, 182682, 2958101,
     Year9999Cap, Year9999Cap + 1, 3000000}
\* 0.5, 0.25, 0.75, 1e-11 and 0.999995
Fractions ==
    {[num |-> 5, len |-> 1], [num |-> 25, len |-> 2], [num |-> 75, len |-> 2],
     [num |-> 1, len |-> 11], [num |-> 999995, len |-> 6]}
FractionDays == {0, 1, 60, 61, 45292, Year9999Cap, Year9999Cap + 1}
Serials ==
    {Whole(n) : n \in (0 .. MaxSerial) \cup Landmarks}
        \cup {Finite(FALSE, n, f.num, f.len) : n \in FractionDays, f \in Fractions}
        \cup {Finite(TRUE, 0, 0, 0), Finite(TRUE, 1, 0, 0), Finite(TRUE, 0, 5, 1),
              Finite(TRUE, 45292, 25, 2), NaN, PosInf, NegInf}

InitSerial == (\E serial \in Serials : si = SiStart(serial)) /\ AllIdleBut("si")
NextSerial == NextSi
SpecSerial == InitSerial /\ [][NextSerial]_vars

\* The date `days` days after 1900-01-01 in the Gregorian calendar, by the
\* count of days in whole 400-year cycles from 0000-03-01.
GregorianDate(days) ==
    LET z == days + 693901
        era == z \div 146097
        doe == z - era * 146097
        yoe == (doe - doe \div 1460 + doe \div 36524 - doe \div 146096) \div 365
        doy == doe - (365 * yoe + yoe \div 4 - yoe \div 100)
        mp == (5 * doy + 2) \div 153
        d == doy - (153 * mp + 2) \div 5 + 1
        m == IF mp < 10 THEN mp + 3 ELSE mp - 9
        y == yoe + era * 400 + (IF m <= 2 THEN 1 ELSE 0)
    IN [year |-> y, month |-> m, day |-> d]

GregorianText(days) ==
    LET g == GregorianDate(days) IN DateText(g.year, g.month, g.day)

LotusDate(d) ==
    IF d = 60 THEN <<49, 57, 48, 48, 45, 48, 50, 45, 50, 57>>
    ELSE IF d < 60 THEN GregorianText(d - 1)
    ELSE GregorianText(d - 2)

MonthLength(year, month) ==
    IF month = 2
    THEN (IF year = 1900 \/ (year % 4 = 0 /\ year % 100 # 0) \/ year % 400 = 0
          THEN 29 ELSE 28)
    ELSE IF month \in {4, 6, 9, 11} THEN 30 ELSE 31

IsWholeSerial(x) == x.kind = "finite" /\ ~x.neg /\ x.num = 0
SerialIs(n) == si.pc = "done" /\ si.serial = Whole(n)

\* C11: every whole serial 1 <= d <= 2,958,465 renders as the date of the
\* 1900 date system with the Lotus 1-2-3 leap-year bug: 1..59 are
\* 1900-01-01..1900-02-28, 60 is 1900-02-29, every d > 60 is the Gregorian
\* date d - 2 days after 1900-01-01; 61, 36526, 45292 and 2958465 are
\* 1900-03-01, 2000-01-01, 2024-01-01 and 9999-12-31; the month is in 1..12
\* and the day within the month's length.
C11_SerialDates ==
    /\ (si.pc = "done" /\ IsWholeSerial(si.serial)
            /\ si.serial.whole \in 1 .. Year9999Cap)
        => /\ si.result = Some(LotusDate(si.serial.whole))
           /\ si.month \in 1 .. 12
           /\ si.day \in 1 .. MonthLength(si.year, si.month)
    /\ SerialIs(1) => si.result = Some(<<49, 57, 48, 48, 45, 48, 49, 45, 48, 49>>)
    /\ SerialIs(59) => si.result = Some(<<49, 57, 48, 48, 45, 48, 50, 45, 50, 56>>)
    /\ SerialIs(61) => si.result = Some(<<49, 57, 48, 48, 45, 48, 51, 45, 48, 49>>)
    /\ SerialIs(36526) => si.result = Some(<<50, 48, 48, 48, 45, 48, 49, 45, 48, 49>>)
    /\ SerialIs(45292) => si.result = Some(<<50, 48, 50, 52, 45, 48, 49, 45, 48, 49>>)
    /\ SerialIs(Year9999Cap)
        => si.result = Some(<<57, 57, 57, 57, 45, 49, 50, 45, 51, 49>>)

C11_Witness ==
    /\ SerialIs(73110)
    /\ si.result = Some(<<50, 49, 48, 48, 45, 48, 51, 45, 48, 49>>)


IsDigit(c) == c \in 48 .. 57
IsTimeText(t) ==
    /\ Len(t) = 8
    /\ \A i \in 1 .. 8 : IF i \in {3, 6} THEN t[i] = 58 ELSE IsDigit(t[i])
IsDateText(t) ==
    /\ Len(t) = 10
    /\ \A i \in 1 .. 10 : IF i \in {5, 8} THEN t[i] = 45 ELSE IsDigit(t[i])
IsDateTimeText(t) ==
    /\ Len(t) = 19
    /\ IsDateText(SubSeq(t, 1, 10))
    /\ t[11] = 32
    /\ IsTimeText(SubSeq(t, 12, 19))
\* the number itself: digits with at most a sign and a decimal point, or
\* the name of a value that is not finite
IsPlainNumber(t) ==
    \/ t \in {<<78, 97, 78>>, <<105, 110, 102>>, <<45, 105, 110, 102>>}
    \/ /\ t # <<>>
       /\ \A i \in 1 .. Len(t) : IsDigit(t[i]) \/ t[i] = 46 \/ (i = 1 /\ t[i] = 45)
       /\ Cardinality({i \in 1 .. Len(t) : t[i] = 46}) <= 1

NotFinite(x) == x.kind # "finite"
GreaterThanCap(x) ==
    /\ x.kind = "finite" /\ ~x.neg
    /\ (x.whole > Year9999Cap \/ (x.whole = Year9999Cap /\ x.num > 0))
BetweenZeroAndOne(x) == x.kind = "finite" /\ ~x.neg /\ x.whole = 0 /\ x.num > 0
FallbackSerial(x) ==
    IsNegative(x) \/ NotFinite(x) \/ IsZero(x) \/ GreaterThanCap(x)

\* C12: serial_to_iso returns the plain number for exactly the negative and
\* the non-finite serials, serial 0 without a fraction, and every serial
\* greater than 2,958,465 with or without a fraction; a serial strictly
\* between 0 and 1 renders as HH:MM:SS only, every other serial as a date
\* or a date and time.
C12_Fallback ==
    si.pc = "done" =>
        LET text == Unwrap(si.result)
        IN IF FallbackSerial(si.serial) THEN IsPlainNumber(text)
           ELSE IF BetweenZeroAndOne(si.serial) THEN IsTimeText(text)
           ELSE IsDateText(text) \/ IsDateTimeText(text)

WholeGreaterThanCap(x) == x.kind = "finite" /\ ~x.neg /\ x.whole > Year9999Cap

\* C12 (amended): serial_to_iso returns the plain number for exactly the
\* negative and the non-finite serials, serial 0 without a fraction, and
\* every serial whose whole part is greater than 2,958,465 (2,958,466 and
\* up); a serial strictly between 0 and 1 renders as HH:MM:SS only, every
\* other serial, those between 2,958,465 and 2,958,466 included, as a date
\* or a date and time.
C12_FallbackByDay ==
    si.pc = "done" =>
        LET text == Unwrap(si.result)
        IN IF IsNegative(si.serial) \/ NotFinite(si.serial) \/ IsZero(si.serial)
                 \/ WholeGreaterThanCap(si.serial)
           THEN IsPlainNumber(text)
           ELSE IF BetweenZeroAndOne(si.serial) THEN IsTimeText(text)
           ELSE IsDateText(text) \/ IsDateTimeText(text)

\* 2958465.5 is "9999-12-31 12:00:00"
C12_Witness ==
    /\ si.pc = "done"
    /\ si.serial = Finite(FALSE, Year9999Cap, 5, 1)
    /\ si.result = Some(<<57, 57, 57, 57, 45, 49, 50, 45, 51, 49, 32,
                          49, 50, 58, 48, 48, 58, 48, 48>>)

-----------------------------------------------------------------------------
(* xls.rs: decode_rk.                                                      *)
(* The u32 argument is held as its two 16-bit halves.  The f64 result is   *)
(* NaN, an infinity, or the exact number (-1)^neg * mant * 2^exp2 / 5^q    *)
(* with mant odd and prime to 5 when q > 0 (zero: mant = 0, exp2 = q = 0). *)

Word(hi, lo) == [hi |-> hi, lo |-> lo]

RECURSIVE StripTwos(_, _)
StripTwos(mant, exp2) ==
    IF mant % 2 = 0 THEN StripTwos(mant \div 2, exp2 + 1)
    ELSE [mant |-> mant, exp2 |-> exp2]

\* the number (-1)^neg * mant * 2^exp2 / 5^q
Number(neg, mant, exp2, q) ==
    IF mant = 0
    THEN [kind |-> "number", neg |-> neg, mant |-> 0, exp2 |-> 0, q |-> 0]
    ELSE LET s == StripTwos(mant, exp2)
         IN [kind |-> "number", neg |-> neg, mant |-> s.mant, exp2 |-> s.exp2, q |-> q]

\* f64::from(ival)
F64FromI32(ival) ==
    IF ival < 0 THEN Number(TRUE, 0 - ival, 0, 0) ELSE Number(FALSE, ival, 0, 0)

\* val / 100.0
DivideBy100(val) ==
    IF val.kind # "number" \/ val.mant = 0 THEN val
    ELSE IF val.mant % 25 = 0
    THEN Number(val.neg, val.mant \div 25, val.exp2 - 2, val.q)
    ELSE IF val.mant % 5 = 0
    THEN Number(val.neg, val.mant \div 5, val.exp2 - 2, val.q + 1)
    ELSE Number(val.neg, val.mant, val.exp2 - 2, val.q + 2)

\* rk.cast_signed()
cast_signed(w) ==
    (IF w.hi >= 32768 THEN w.hi - 65536 ELSE w.hi) * 65536 + w.lo

\* f64::from_bits(u64::from(hi) << 32): sign, 11 bits of exponent and the
\* upper 20 bits of the fraction, the lower 32 bits of the fraction zero
F64FromHighBits(w) ==
    LET sign == w.hi >= 32768
        exponent == (w.hi % 32768) \div 16
        fraction == (w.hi % 16) * 65536 + w.lo
    IN IF exponent = 2047
       THEN (IF fraction # 0 THEN NaN ELSE IF sign THEN NegInf ELSE PosInf)
       ELSE IF exponent = 0
       THEN Number(sign, fraction, 0 - 1042, 0)
       ELSE Number(sign, 1048576 + fraction, exponent - 1043, 0)

\* rk & 0xFFFF_FFFF: the flag bits left in the high word
MaskNothing(w) == w

\* rk & 0xFFFF_FFFC
MaskFlagBits(w) == Word(w.hi, BitAnd(w.lo, \hFFFC))

decode_rk(w) ==
    LET val == IF BitAnd(w.lo, \h02) # 0
               THEN LET ival == cast_signed(w) \div 4
                    IN F64FromI32(ival)
               ELSE F64FromHighBits(MaskFlagBits(w))
    IN IF BitAnd(w.lo, \h01) # 0 THEN DivideBy100(val) ELSE val

RkOthers == <<ct, ep, df, px, rs, ss, sx, ds, si, fs, rr, rm, pm, hl, mn, pp, hk>>

RkDecode ==
    /\ rk.pc = "call"
    /\ rk' = [rk EXCEPT !.pc = "done", !.result = Some(decode_rk(rk.rk))]
    /\ UNCHANGED RkOthers

NextRk == RkDecode
RkStart(w) == [pc |-> "call", rk |-> w, result |-> None]

-----------------------------------------------------------------------------
(* RK values.                                                              *)

\* low halves 0..MaxLow and the ends of the range; high halves of zero,
\* small and large exponents, 1.0, 100.0, -1.0, the infinities and NaN
MaxLow == 11
LowHalves == (0 .. MaxLow) \cup {170, 603, \h7FFE, \h8000, \hFFFC, \hFFFD, \hFFFE, \hFFFF}
HighHalves ==
    {0, 1, \h000F, \h0010, \h3FF0, \h3FF8, \h4059, \h4062, \h7FEF, \h7FF0, \h7FF8,
     \h8000, \hBFF0, \hC059, \hFFF0, \hFFFF}
InitRk ==
    /\ \E hi \in HighHalves, lo \in LowHalves : rk = RkStart(Word(hi, lo))
    /\ AllIdleBut("rk")
SpecRk == InitRk /\ [][NextRk]_vars

Bit(w, k) == IF k < 16 THEN (w.lo \div (2 ^ k)) % 2 ELSE (w.hi \div (2 ^ (k - 16))) % 2

\* bits 2..31 read as a signed 30-bit integer
Signed30(w) ==
    LET field == w.hi * 16384 + w.lo \div 4
    IN IF Bit(w, 31) = 1 THEN field - 1073741824 ELSE field

\* the double whose high 32 bits are w with bits 0 and 1 cleared and whose
\* low 32 bits are zero
RECURSIVE BitsValue(_, _, _)
BitsValue(w, from, to) ==
    IF from > to THEN 0 ELSE Bit(w, from) + 2 * BitsValue(w, from + 1, to)
DoubleOfHighWord(w) ==
    LET e == BitsValue(w, 20, 30)
        f == 4 * BitsValue(w, 2, 19)
        neg == Bit(w, 31) = 1
    IN IF e = 2047 THEN (IF f # 0 THEN NaN ELSE IF neg THEN NegInf ELSE PosInf)
       ELSE IF e = 0 THEN Number(neg, f, 0 - 1042, 0)
       ELSE Number(neg, 1048576 + f, e - 1043, 0)

Hundredth(val) ==
    IF val.kind # "number" \/ val.mant = 0 THEN val
    ELSE LET fives == IF val.mant % 25 = 0 THEN 2 ELSE IF val.mant % 5 = 0 THEN 1 ELSE 0
         IN Number(val.neg, val.mant \div (5 ^ fives), val.exp2 - 2, 2 - fives)

RkIs(hi, lo) == rk.pc = "done" /\ rk.rk = Word(hi, lo)

\* C13: decode_rk(rk) is, with bit 1 set, the signed 30-bit integer of
\* bits 2..31 (the arithmetic shift of the word by 2, negative when bit 31
\* is set), and with bit 1 clear the double whose high 32 bits are
\* rk & 0xFFFFFFFC and whose low 32 bits are zero; it is divided by 100
\* exactly when bit 0 is set.  (42<<2)|2 is 42, (150<<2)|3 is 1.5,
\* 0xFFFFFFFE is -1, 0x3FF00000 is 1.0 and 0x40590001 is 1.0.
C13_DecodeRk ==
    /\ rk.pc = "done" =>
        LET w == rk.rk
            value == IF Bit(w, 1) = 1
                     THEN (IF Signed30(w) < 0 THEN Number(TRUE, 0 - Signed30(w), 0, 0)
                           ELSE Number(FALSE, Signed30(w), 0, 0))
                     ELSE DoubleOfHighWord(w)
        IN rk.result = Some(IF Bit(w, 0) = 1 THEN Hundredth(value) ELSE value)
    /\ RkIs(0, 170) => rk.result = Some(Number(FALSE, 42, 0, 0))
    /\ RkIs(0, 603) => rk.result = Some(Number(FALSE, 3, 0 - 1, 0))
    /\ RkIs(\hFFFF, \hFFFE) => rk.result = Some(Number(TRUE, 1, 0, 0))
    /\ RkIs(\h3FF0, 0) => rk.result = Some(Number(FALSE, 1, 0, 0))
    /\ RkIs(\h4059, 1) => rk.result = Some(Number(FALSE, 1, 0, 0))

C13_Witness ==
    /\ RkIs(\h3FF8, 1)
    /\ rk.result = Some(Number(FALSE, 3, 0 - 3, 2))

-----------------------------------------------------------------------------
(* dateconv.rs: is_date_format_string.                                     *)

\* char::to_ascii_lowercase left out
to_ascii_lowercase_omitted(ch) == ch

to_ascii_lowercase(ch) == IF ch \in 65 .. 90 THEN ch + 32 ELSE ch

\* 'y' | 'd' | 'h' | 's' | 'm'
DateTokens == {121, 100, 104, 115, 109}
\* '0' | '#' | '?'
NumberTokens == {48, 35, 63}

\* one iteration of `for ch in fmt.chars()`
FsScan(f, ch) ==
    IF f.prev_backslash THEN [f EXCEPT !.prev_backslash = FALSE]
    ELSE IF ch = 92 THEN [f EXCEPT !.prev_backslash = TRUE]
    ELSE IF ch = 34 THEN [f EXCEPT !.in_quote = ~f.in_quote]
    ELSE IF f.in_quote THEN f
    ELSE IF to_ascii_lowercase(ch) \in DateTokens
    THEN [f EXCEPT !.has_date_token = TRUE]
    ELSE IF to_ascii_lowercase(ch) \in NumberTokens
    THEN [f EXCEPT !.has_number_token = TRUE]
    ELSE f

FsOthers == <<ct, ep, df, px, rs, ss, sx, ds, si, rk, rr, rm, pm, hl, mn, pp, hk>>

FsChar ==
    /\ fs.pc = "chars"
    /\ fs.i <= Len(fs.fmt)
    /\ fs' = [FsScan(fs, fs.fmt[fs.i]) EXCEPT !.i = fs.i + 1]
    /\ UNCHANGED FsOthers

FsReturn ==
    /\ fs.pc = "chars"
    /\ fs.i > Len(fs.fmt)
    /\ fs' = [fs EXCEPT !.pc = "done",
                        !.result = Some(fs.has_date_token /\ ~fs.has_number_token)]
    /\ UNCHANGED FsOthers

NextFs == FsChar \/ FsReturn

FsStart(fmt) ==
    [pc |-> "chars", fmt |-> fmt, i |-> 1, has_date_token |-> FALSE,
     has_number_token |-> FALSE, in_quote |-> FALSE, prev_backslash |-> FALSE,
     result |-> None]

-----------------------------------------------------------------------------
(* Date format strings.                                                    *)

MaxFmt == 4
\* y D 0 ? " \ -
FmtChars == {121, 68, 48, 63, 34, 92, 45}
\* "yyyy-mm-dd", "#,##0.00", "yyyy-mm-dd #0", "General" in quotes then "x"
FmtIsoDate == <<121, 121, 121, 121, 45, 109, 109, 45, 100, 100>>
FmtThousands == <<35, 44, 35, 35, 48, 46, 48, 48>>
FmtDateAndNumber == FmtIsoDate \o <<32, 35, 48>>
FmtQuotedLetters == <<34, 100, 97, 121, 115, 34, 32, 120>>
NamedFormats == {FmtIsoDate, FmtThousands, FmtDateAndNumber, FmtQuotedLetters}

InitFmt ==
    /\ \E fmt \in SeqsUpTo(FmtChars, MaxFmt) \cup NamedFormats : fs = FsStart(fmt)
    /\ AllIdleBut("fs")
SpecFmt == InitFmt /\ [][NextFs]_vars

\* the character at i immediately follows a backslash that is not itself
\* the character following a backslash
RECURSIVE FollowsBackslash(_, _)
FollowsBackslash(fmt, i) ==
    i > 1 /\ fmt[i - 1] = 92 /\ ~FollowsBackslash(fmt, i - 1)
QuoteMarkAt(fmt, i) == fmt[i] = 34 /\ ~FollowsBackslash(fmt, i)
InsideQuotes(fmt, i) ==
    Cardinality({j \in 1 .. i - 1 : QuoteMarkAt(fmt, j)}) % 2 = 1
Scanned(fmt) ==
    {i \in 1 .. Len(fmt) :
        ~FollowsBackslash(fmt, i) /\ ~QuoteMarkAt(fmt, i) /\ ~InsideQuotes(fmt, i)}
IsDateLetter(c) == c \in {121, 100, 104, 115, 109, 89, 68, 72, 83, 77}
LooksLikeDate(fmt) ==
    /\ \E i \in Scanned(fmt) : IsDateLetter(fmt[i])
    /\ \A i \in Scanned(fmt) : fmt[i] \notin {48, 35, 63}

FmtIs(fmt) == fs.pc = "done" /\ fs.fmt = fmt

\* C14: is_date_format_string(fmt) is true exactly when, ignoring the
\* characters inside double-quoted spans and the characters that
\* immediately follow a backslash, one of the letters y, d, h, s, m occurs
\* in either case and none of 0, #, ? occurs; "yyyy-mm-dd" is a date format,
\* "#,##0.00" and "yyyy-mm-dd #0" are not, nor is a format whose only
\* letters are inside quotes.
C14_DateFormat ==
    /\ fs.pc = "done" => fs.result = Some(LooksLikeDate(fs.fmt))
    /\ FmtIs(FmtIsoDate) => fs.result = Some(TRUE)
    /\ FmtIs(FmtThousands) => fs.result = Some(FALSE)
    /\ FmtIs(FmtDateAndNumber) => fs.result = Some(FALSE)
    /\ FmtIs(FmtQuotedLetters) => fs.result = Some(FALSE)

\* "\"y" then D: the escaped quote opens no span, the upper-case letter counts
C14_Witness ==
    /\ FmtIs(<<92, 34, 68>>)
    /\ fs.result = Some(TRUE)

-----------------------------------------------------------------------------
(* markup.rs: render_runs_markdown, format_run_inline.                     *)

Star == <<42>>
format_run_inline(run, out) ==
    IF Trim(run.text) = <<>> THEN out \o run.text
    ELSE IF run.bold /\ run.italic
    THEN out \o Star \o Star \o Star \o run.text \o Star \o Star \o Star
    ELSE IF run.bold THEN out \o Star \o Star \o run.text \o Star \o Star
    ELSE IF run.italic THEN out \o Star \o run.text \o Star
    ELSE out \o run.text

\* any link taken for the link of the group
SameLink_any_url(run, url) == IsSome(run.link_url)
\* runs[i].link_url() == Some(url)
SameLink(run, url) == run.link_url = Some(url)

\* while i < runs.len() && runs[i].link_url() == Some(url)
RECURSIVE LinkGroupLoop(_, _, _, _)
LinkGroupLoop(runs, i, url, link_text) ==
    IF i <= Len(runs) /\ SameLink(runs[i], url)
    THEN LinkGroupLoop(runs, i + 1, url,
            IF Trim(runs[i].text) = <<>> THEN link_text \o runs[i].text
            ELSE format_run_inline(runs[i], link_text))
    ELSE [i |-> i, link_text |-> link_text]

\* '[' link_text "](" url ')'
LinkMarkup(link_text, url) == <<91>> \o link_text \o <<93, 40>> \o url \o <<41>>

RrOthers == <<ct, ep, df, px, rs, ss, sx, ds, si, rk, fs, rm, pm, hl, mn, pp, hk>>

\* an iteration of the outer loop at a run with a link: the whole group
RrLinkGroup ==
    /\ rr.pc = "runs"
    /\ rr.i <= Len(rr.runs)
    /\ IsSome(rr.runs[rr.i].link_url)
    /\ LET url == Unwrap(rr.runs[rr.i].link_url)
           g == LinkGroupLoop(rr.runs, rr.i, url, <<>>)
           link_text == Trim(g.link_text)
       IN rr' = [rr EXCEPT !.i = g.i,
                           !.out = IF link_text # <<>>
                                   THEN rr.out \o LinkMarkup(link_text, url)
                                   ELSE rr.out]
    /\ UNCHANGED RrOthers

\* an iteration of the outer loop at a run without a link
RrPlainRun ==
    /\ rr.pc = "runs"
    /\ rr.i <= Len(rr.runs)
    /\ ~IsSome(rr.runs[rr.i].link_url)
    /\ LET run == rr.runs[rr.i]
       IN rr' = [rr EXCEPT !.i = rr.i + 1,
                           !.out = IF Trim(run.text) = <<>> THEN rr.out \o run.text
                                   ELSE format_run_inline(run, rr.out)]
    /\ UNCHANGED RrOthers

RrReturn ==
    /\ rr.pc = "runs"
    /\ rr.i > Len(rr.runs)
    /\ rr' = [rr EXCEPT !.pc = "done", !.result = Some(rr.out)]
    /\ UNCHANGED RrOthers

NextRr == RrLinkGroup \/ RrPlainRun \/ RrReturn
RrStart(runs) == [pc |-> "runs", runs |-> runs, i |-> 1, out |-> <<>>, result |-> None]

-----------------------------------------------------------------------------
(* Runs and link groups.                                                   *)

MaxRuns == 3
\* "a" in every formatting, " " plain or bold and italic, "b " plain or
\* bold, each without a link or with one of two URLs
RunKinds ==
    {run \in [text : {<<97>>, <<32>>, <<98, 32>>}, bold : BOOLEAN, italic : BOOLEAN,
              link_url : {None, Some(<<117>>), Some(<<118>>)}] :
        \/ run.text = <<97>>
        \/ run.text = <<32>> /\ run.bold = run.italic
        \/ run.text = <<98, 32>> /\ ~run.italic}
InitRuns ==
    /\ \E runs \in SeqsUpTo(RunKinds, MaxRuns) : rr = RrStart(runs)
    /\ AllIdleBut("rr")
SpecRuns == InitRuns /\ [][NextRr]_vars

\* the first run of a maximal group: its neighbour on the left carries
\* another URL or none
GroupStarts(runs) ==
    {i \in DOMAIN runs :
        IsSome(runs[i].link_url) /\ (i = 1 \/ runs[i - 1].link_url # runs[i].link_url)}
GroupEnd(runs, i) ==
    CHOOSE j \in i .. Len(runs) :
        /\ \A k \in i .. j : runs[k].link_url = runs[i].link_url
        /\ (j = Len(runs) \/ runs[j + 1].link_url # runs[i].link_url)
FormattedRun(run) ==
    IF Trim(run.text) = <<>> THEN run.text
    ELSE LET stars == IF run.bold /\ run.italic THEN <<42, 42, 42>>
                      ELSE IF run.bold THEN <<42, 42>>
                      ELSE IF run.italic THEN <<42>> ELSE <<>>
         IN stars \o run.text \o stars
RECURSIVE JoinFormatted(_, _, _)
JoinFormatted(runs, i, j) ==
    IF i > j THEN <<>> ELSE FormattedRun(runs[i]) \o JoinFormatted(runs, i + 1, j)
\* the output from run i on: one link per group, plain runs as they are
RECURSIVE RunsFrom(_, _)
RunsFrom(runs, i) ==
    IF i > Len(runs) THEN <<>>
    ELSE IF i \in GroupStarts(runs)
    THEN LET j == GroupEnd(runs, i)
         IN <<91>> \o Trim(JoinFormatted(runs, i, j)) \o <<93, 40>>
                \o Unwrap(runs[i].link_url) \o <<41>> \o RunsFrom(runs, j + 1)
    ELSE FormattedRun(runs[i]) \o RunsFrom(runs, i + 1)
CountOf(text, c) == Cardinality({i \in DOMAIN text : text[i] = c})

\* C15: render_runs_markdown emits exactly one link [text](url) for each
\* maximal group of consecutive runs with the same URL, neither one per
\* run nor none, its text the formatted texts of the group joined and
\* trimmed; runs without a URL are rendered outside any link, and groups
\* and plain runs keep the order of the runs.
C15_OneLinkPerGroup ==
    rr.pc = "done" =>
        /\ Unwrap(rr.result) = RunsFrom(rr.runs, 1)
        /\ CountOf(Unwrap(rr.result), 91) = Cardinality(GroupStarts(rr.runs))

\* the groups with visible text: not every run of the group is blank
VisibleGroupStarts(runs) ==
    {i \in GroupStarts(runs) :
        \E k \in i .. GroupEnd(runs, i) : \E c \in DOMAIN runs[k].text :
            ~IsWhitespace(runs[k].text[c])}
\* the output from run i on: one link per group with visible text, nothing
\* for a group without, plain runs as they are
RECURSIVE VisibleRunsFrom(_, _)
VisibleRunsFrom(runs, i) ==
    IF i > Len(runs) THEN <<>>
    ELSE IF i \in VisibleGroupStarts(runs)
    THEN LET j == GroupEnd(runs, i)
         IN <<91>> \o Trim(JoinFormatted(runs, i, j)) \o <<93, 40>>
                \o Unwrap(runs[i].link_url) \o <<41>> \o VisibleRunsFrom(runs, j + 1)
    ELSE IF i \in GroupStarts(runs) THEN VisibleRunsFrom(runs, GroupEnd(runs, i) + 1)
    ELSE FormattedRun(runs[i]) \o VisibleRunsFrom(runs, i + 1)

\* C15 (amended): render_runs_markdown emits exactly one link [text](url)
\* for each maximal group of consecutive runs with the same URL that has
\* visible text, its text the formatted texts of the group joined and
\* trimmed, and nothing for a group whose runs are all whitespace; runs
\* without a URL are rendered outside any link, and groups and plain runs
\* keep the order of the runs.
C15_OneLinkPerVisibleGroup ==
    rr.pc = "done" =>
        /\ Unwrap(rr.result) = VisibleRunsFrom(rr.runs, 1)
        /\ CountOf(Unwrap(rr.result), 91) = Cardinality(VisibleGroupStarts(rr.runs))

\* bold "a" and "b " with the link u, then " " with the link v:
\* "[**a**b](u)"
C15_Witness ==
    /\ rr.pc = "done"
    /\ rr.runs = <<[text |-> <<97>>, bold |-> TRUE, italic |-> FALSE, link_url |-> Some(<<117>>)],
                   [text |-> <<98, 32>>, bold |-> FALSE, italic |-> FALSE,
                    link_url |-> Some(<<117>>)],
                   [text |-> <<32>>, bold |-> FALSE, italic |-> FALSE,
                    link_url |-> Some(<<118>>)]>>
    /\ rr.result = Some(<<91, 42, 42, 97, 42, 42, 98, 93, 40, 117, 41>>)

-----------------------------------------------------------------------------
(* sheet.rs: render_markdown.                                              *)

IsBlankCell(cell) == Trim(cell) = <<>>
RowHasContent(row) == \E c \in DOMAIN row : ~IsBlankCell(row[c])

strip_trailing_empty_rows(rows) ==
    LET last_nonempty == LastIndex(rows, RowHasContent)
    IN IF last_nonempty = 0 THEN <<>> ELSE SubSeq(rows, 1, last_nonempty)

\* rows.iter().any(|r| r.get(c).is_some_and(|v| !v.trim().is_empty()))
ColumnHasContent(rows, c) ==
    \E r \in DOMAIN rows : c <= Len(rows[r]) /\ ~IsBlankCell(rows[r][c])

\* row.get(c).cloned().unwrap_or_default()
CellOrDefault(row, c) == IF c <= Len(row) THEN row[c] ELSE <<>>

\* the columns as they are in each row, without the padding
strip_empty_cols_unpadded(rows) ==
    IF rows = <<>> THEN [rows |-> <<>>, ncols |-> 0]
    ELSE LET ncols == Max(0, CHOOSE n \in {Len(rows[r]) : r \in DOMAIN rows} :
                                \A r \in DOMAIN rows : Len(rows[r]) <= n)
             nonempty == {c \in 1 .. ncols : ColumnHasContent(rows, c)}
             first_col == IF nonempty = {} THEN 1
                          ELSE CHOOSE c \in nonempty : \A d \in nonempty : c <= d
             last_col == IF nonempty = {} THEN 1
                         ELSE CHOOSE c \in nonempty : \A d \in nonempty : c >= d
         IN IF ncols = 0 THEN [rows |-> <<>>, ncols |-> 0]
            ELSE [rows |-> [r \in DOMAIN rows |->
                               SubSeq(rows[r], first_col, Min(last_col, Len(rows[r])))],
                  ncols |-> last_col - first_col + 1]

\* columns are 1-based here: first_col and last_col are one more than in
\* the source, and unwrap_or(0) is column 1
strip_empty_cols(rows) ==
    IF rows = <<>> THEN [rows |-> <<>>, ncols |-> 0]
    ELSE LET ncols == Max(0, CHOOSE n \in {Len(rows[r]) : r \in DOMAIN rows} :
                                \A r \in DOMAIN rows : Len(rows[r]) <= n)
             nonempty == {c \in 1 .. ncols : ColumnHasContent(rows, c)}
             first_col == IF nonempty = {} THEN 1
                          ELSE CHOOSE c \in nonempty : \A d \in nonempty : c <= d
             last_col == IF nonempty = {} THEN 1
                         ELSE CHOOSE c \in nonempty : \A d \in nonempty : c >= d
         IN IF ncols = 0 \/ first_col > last_col THEN [rows |-> <<>>, ncols |-> 0]
            ELSE [rows |-> [r \in DOMAIN rows |->
                               [k \in 1 .. last_col - first_col + 1 |->
                                   CellOrDefault(rows[r], first_col + k - 1)]],
                  ncols |-> last_col - first_col + 1]

\* s.replace('|', "\\|")
RECURSIVE escape_pipe(_)
escape_pipe(s) ==
    IF s = <<>> THEN <<>>
    ELSE (IF Head(s) = 124 THEN <<92, 124>> ELSE <<Head(s)>>) \o escape_pipe(Tail(s))

\* "| " cells joined by " | " " |\n"
TableRow(row) ==
    <<124, 32>> \o Join([c \in DOMAIN row |-> escape_pipe(row[c])], <<32, 124, 32>>)
        \o <<32, 124, 10>>

\* '|' then " --- |" for each column, '\n'
RECURSIVE SeparatorCells(_)
SeparatorCells(n) ==
    IF n = 0 THEN <<>> ELSE <<32, 45, 45, 45, 32, 124>> \o SeparatorCells(n - 1)
SeparatorRow(ncols) == <<124>> \o SeparatorCells(ncols) \o <<10>>

RECURSIVE DataRows(_, _)
DataRows(rows, i) ==
    IF i > Len(rows) THEN <<>> ELSE TableRow(rows[i]) \o DataRows(rows, i + 1)

\* the body of `for sheet in sheets`: what one sheet adds to out
RenderMarkdownSheet(sheet, multiple) ==
    IF skip_empty_sheet(sheet) THEN <<>>
    ELSE LET rows == strip_trailing_empty_rows(sheet.rows)
         IN IF rows = <<>> THEN <<>>
            ELSE LET s == strip_empty_cols(rows)
                 IN IF s.ncols = 0 THEN <<>>
                    ELSE (IF multiple THEN <<35, 35, 32>> \o sheet.name \o <<10, 10>>
                          ELSE <<>>)
                         \o (IF s.rows # <<>>
                             THEN TableRow(s.rows[1]) \o SeparatorRow(s.ncols)
                                    \o DataRows(s.rows, 2) \o <<10>>
                             ELSE <<>>)

RmOthers == <<ct, ep, df, px, rs, ss, sx, ds, si, rk, fs, rr, pm, hl, mn, pp, hk>>

RmSheet ==
    /\ rm.pc = "sheets"
    /\ rm.i <= Len(rm.sheets)
    /\ rm' = [rm EXCEPT !.i = rm.i + 1,
                        !.out = rm.out \o RenderMarkdownSheet(rm.sheets[rm.i],
                                                              Len(rm.sheets) > 1)]
    /\ UNCHANGED RmOthers

RmReturn ==
    /\ rm.pc = "sheets"
    /\ rm.i > Len(rm.sheets)
    /\ rm' = [rm EXCEPT !.pc = "done", !.result = Some(rm.out)]
    /\ UNCHANGED RmOthers

NextRm == RmSheet \/ RmReturn
RmStart(sheets) ==
    [pc |-> "sheets", sheets |-> sheets, i |-> 1, out |-> <<>>, result |-> None]


-----------------------------------------------------------------------------
(* Markdown tables of sheets.                                              *)

MaxMdRows == 2
MaxMdCols == 3
\* cells " " and "a|"; a row may be shorter than the others
MdCells == {<<32>>, <<97, 124>>}
MdRows == SeqsUpTo(MdCells, MaxMdCols)
MdGrids == SeqsUpTo(MdRows, MaxMdRows)
\* a second sheet: without rows, blank, or with one cell
OtherSheets ==
    {[name |-> <<84>>, rows |-> <<>>], [name |-> <<84>>, rows |-> << <<<<32>>>> >>],
     [name |-> <<84>>, rows |-> << <<<<97, 124>>>> >>]}
InitMd ==
    /\ \E rows \in MdGrids :
         \E others \in {<<>>} \cup {<<o>> : o \in OtherSheets} :
            \E first \in BOOLEAN :
                rm = RmStart(IF first
                             THEN <<[name |-> <<83>>, rows |-> rows]>> \o others
                             ELSE others \o <<[name |-> <<83>>, rows |-> rows]>>)
    /\ AllIdleBut("rm")
SpecMd == InitMd /\ [][NextRm]_vars

\* the lines of a text that ends each line with '\n'
RECURSIVE LinesOf(_)
LinesOf(text) ==
    IF text = <<>> THEN <<>>
    ELSE LET k == CHOOSE i \in DOMAIN text :
                    text[i] = 10 /\ \A j \in 1 .. i - 1 : text[j] # 10
         IN <<SubSeq(text, 1, k - 1)>> \o LinesOf(Drop(text, k))
EndsLines(text) == text = <<>> \/ Last(text) = 10

\* the cells of a table line: one less than its pipes, escaped ones apart
CellsIn(line) ==
    Cardinality({i \in DOMAIN line : line[i] = 124 /\ (i = 1 \/ line[i - 1] # 92)}) - 1
IsSeparatorLine(line) ==
    \E n \in 1 .. Len(line) :
        /\ Len(line) = 1 + 6 * n
        /\ line[1] = 124
        /\ \A k \in 0 .. n - 1 :
             SubSeq(line, 2 + 6 * k, 7 + 6 * k) = <<32, 45, 45, 45, 32, 124>>

HasContent(rows) == \E r \in DOMAIN rows : \E c \in DOMAIN rows[r] : ~IsBlankCell(rows[r][c])
ContentRows(rows) == {r \in DOMAIN rows : \E c \in DOMAIN rows[r] : ~IsBlankCell(rows[r][c])}
ContentCols(rows) ==
    {c \in 1 .. MaxMdCols + 1 :
        \E r \in DOMAIN rows : c \in DOMAIN rows[r] /\ ~IsBlankCell(rows[r][c])}
Least(S) == CHOOSE x \in S : \A y \in S : x <= y
Greatest(S) == CHOOSE x \in S : \A y \in S : x >= y
\* the rows up to the last one with content, each cut to the columns from
\* the first to the last one with content, absent cells empty
TrimmedTable(rows) ==
    [r \in 1 .. Greatest(ContentRows(rows)) |->
        [k \in 1 .. Greatest(ContentCols(rows)) - Least(ContentCols(rows)) + 1 |->
            LET c == Least(ContentCols(rows)) + k - 1
            IN IF c \in DOMAIN rows[r] THEN rows[r][c] ELSE <<>>]]
EscapedCell(cell) ==
    Concat([i \in DOMAIN cell |-> IF cell[i] = 124 THEN <<92, 124>> ELSE <<cell[i]>>])
LineOfCells(cells) ==
    <<124>> \o Concat([c \in DOMAIN cells |-> <<32>> \o EscapedCell(cells[c]) \o <<32, 124>>])

\* what one sheet contributes to the markdown output
SheetChunkOk(sheet, chunk, multiple) ==
    IF ~HasContent(sheet.rows) THEN chunk = <<>>
    ELSE LET table == TrimmedTable(sheet.rows)
             lines == LinesOf(chunk)
             body == IF multiple THEN Drop(lines, 2) ELSE lines
             width == Len(table[1])
         IN /\ EndsLines(chunk)
            /\ multiple => /\ Len(lines) >= 2
                           /\ lines[1] = <<35, 35, 32>> \o sheet.name
                           /\ lines[2] = <<>>
            /\ Len(body) = Len(table) + 2
            /\ body[1] = LineOfCells(table[1])
            /\ IsSeparatorLine(body[2])
            /\ CellsIn(body[2]) = width
            /\ \A k \in 1 .. Len(table) :
                 LET line == body[IF k = 1 THEN 1 ELSE k + 1]
                 IN line = LineOfCells(table[k]) /\ CellsIn(line) = width
            /\ \A k \in 1 .. Len(body) : IsSeparatorLine(body[k]) => k = 2
            /\ body[Len(body)] = <<>>

\* C16: for every sheet the markdown renderer emits, also when the rows
\* have different lengths: the trailing all-empty rows and the fully empty
\* leading and trailing columns are removed, the first remaining row is the
\* header, exactly one separator row follows it with as many --- cells as
\* the header has cells, and every data row has that number of cells; a
\* sheet whose cells all trim to empty produces neither table nor heading.
C16_MarkdownTable ==
    [][(rm.pc = "sheets" /\ rm'.pc = "sheets")
        => SheetChunkOk(rm.sheets[rm.i], Drop(rm'.out, Len(rm.out)),
                        Len(rm.sheets) > 1)]_vars

\* rows <<" ", "a|">> and <<" ", " ", "a|">>: "| a\| |  |", "| --- | --- |", "|   | a\| |"
C16_Witness ==
    /\ rm.pc = "done"
    /\ rm.sheets = <<[name |-> <<83>>,
                      rows |-> << <<<<32>>, <<97, 124>>>>,
                                  <<<<32>>, <<32>>, <<97, 124>>>> >>]>>
    /\ rm.result = Some(<<124, 32, 97, 92, 124, 32, 124, 32, 32, 124, 10,
                          124, 32, 45, 45, 45, 32, 124, 32, 45, 45, 45, 32, 124, 10,
                          124, 32, 32, 32, 124, 32, 97, 92, 124, 32, 124, 10, 10>>)

-----------------------------------------------------------------------------
(* heuristic.rs: detect_numbered_heading, try_strip_section_number,        *)
(* is_likely_subheading.                                                   *)

\* the bytes of a character in UTF-8
Utf8Len(ch) ==
    IF ch < 128 THEN 1 ELSE IF ch < 2048 THEN 2 ELSE IF ch < 65536 THEN 3 ELSE 4
\* str::len(): the length in bytes
RECURSIVE StrLenRange(_, _, _)
StrLenRange(s, lo, hi) ==
    IF lo > hi THEN 0
    ELSE IF lo = hi THEN Utf8Len(s[lo])
    ELSE LET mid == (lo + hi) \div 2
         IN StrLenRange(s, lo, mid) + StrLenRange(s, mid + 1, hi)
StrLen(s) == StrLenRange(s, 1, Len(s))

Contains(s, ch) == \E i \in DOMAIN s : s[i] = ch
EndsWith(s, ch) == s # <<>> /\ s[Len(s)] = ch
CountChar(s, ch) == Cardinality({i \in DOMAIN s : s[i] = ch})
is_ascii_digit(b) == b \in 48 .. 57

\* the first index from i on whose character fails P, or Len(s) + 1
SkipWhile(s, i, P(_)) ==
    LET stops == {j \in i .. Len(s) : ~P(s[j])}
    IN IF stops = {} THEN Len(s) + 1 ELSE CHOOSE j \in stops : \A k \in stops : j <= k

\* Some(rest) or None
try_strip_section_number(s) ==
    IF s = <<>> \/ ~is_ascii_digit(s[1]) THEN None
    ELSE LET i == SkipWhile(s, 1, LAMBDA b : is_ascii_digit(b) \/ b = 46)
         IN IF ~Contains(Take(s, i - 1), 46) THEN None
            ELSE Some(Drop(s, SkipWhile(s, i, LAMBDA b : b = 32) - 1))

\* str::repeat
Repeat(s, n) == [k \in 1 .. n * Len(s) |-> s[((k - 1) % Len(s)) + 1]]

Appendix == <<97, 112, 112, 101, 110, 100, 105, 120>>
Scenario == <<115, 99, 101, 110, 97, 114, 105, 111>>

\* the section-number rule with no test of the end of the remainder
SectionHeading_any_remainder(trimmed) ==
    LET r == try_strip_section_number(trimmed)
    IN IF IsSome(r) /\ Unwrap(r) # <<>>
       THEN LET depth == CountChar(Take(trimmed, Len(trimmed) - Len(Unwrap(r))), 46)
                level == Min(depth, 3)
            IN Some(Repeat(<<35>>, level) \o <<32>> \o trimmed)
       ELSE None

\* "1. Foo", "1.1 Foo": the first rule of detect_numbered_heading
SectionHeading(trimmed) ==
    LET r == try_strip_section_number(trimmed)
    IN IF IsSome(r) /\ Unwrap(r) # <<>> /\ ~EndsWith(Unwrap(r), 46)
       THEN LET depth == CountChar(Take(trimmed, Len(trimmed) - Len(Unwrap(r))), 46)
                level == Min(depth, 3)
            IN Some(Repeat(<<35>>, level) \o <<32>> \o trimmed)
       ELSE None

detect_numbered_heading(line) ==
    LET trimmed == Trim(line)
    IN IF StrLen(trimmed) > 120 THEN None
       ELSE IF IsSome(SectionHeading(trimmed)) THEN SectionHeading(trimmed)
       ELSE LET lower == ToLowercase(trimmed)
            IN IF (IsPrefix(Appendix, lower) \/ IsPrefix(Scenario, lower))
                    /\ Contains(trimmed, 58) /\ StrLen(trimmed) < 100
               THEN Some(<<35, 35, 32>> \o trimmed)
               ELSE None

\* char::is_uppercase on the alphabet the model draws from
is_uppercase(c) == c \in 65 .. 90

\* idx is 1-based
is_likely_subheading(line, idx, lines) ==
    LET trimmed == Trim(line)
        blank_before == IF idx = 1 THEN TRUE ELSE Trim(lines[idx - 1]) = <<>>
        blank_after == IF idx + 1 > Len(lines) THEN TRUE ELSE Trim(lines[idx + 1]) = <<>>
    IN /\ ~(StrLen(trimmed) > 80 \/ StrLen(trimmed) < 3)
       /\ ~(EndsWith(trimmed, 46) \/ EndsWith(trimmed, 44) \/ EndsWith(trimmed, 59))
       /\ ~(~Contains(trimmed, 32) /\ ~Contains(trimmed, 9))
       /\ blank_before /\ blank_after
       /\ (trimmed # <<>> => is_uppercase(trimmed[1]))


PmOthers == <<ct, ep, df, px, rs, ss, sx, ds, si, rk, fs, rr, rm, hl, mn, pp, hk>>

\* a call of detect_numbered_heading
PmDetectHeading ==
    /\ pm.pc = "heading"
    /\ pm' = [pm EXCEPT !.pc = "heading_done",
                        !.result = Some(detect_numbered_heading(pm.line))]
    /\ UNCHANGED PmOthers

HeadingStart(line) == [pc |-> "heading", line |-> line, result |-> None]

-----------------------------------------------------------------------------
(* Numbered headings.                                                      *)

MaxLine == 5
\* 1 2 . space a and U+00E9, which takes two bytes
LineChars == {49, 50, 46, 32, 97, 233}
\* "1. " and "1.2.3.4 " before 116..118 and 111..113 letters, "1. " before
\* 58..59 two-byte letters, and "Appendix 1: a"
LongLines ==
    {<<49, 46, 32>> \o Repeat(<<97>>, n) : n \in 116 .. 118}
        \cup {<<49, 46, 50, 46, 51, 46, 52, 32>> \o Repeat(<<97>>, n) : n \in 111 .. 113}
        \cup {<<49, 46, 32>> \o Repeat(<<233>>, n) : n \in 58 .. 59}
        \cup {<<65>> \o Drop(Appendix, 1) \o <<32, 49, 58, 32, 97>>}
\* the lines as plain_to_markdown passes them: trimmed
HeadingLines == {l \in SeqsUpTo(LineChars, MaxLine) : Trim(l) = l} \cup LongLines

InitHeading ==
    /\ \E line \in HeadingLines : pm = HeadingStart(line)
    /\ AllIdleBut("pm")
NextHeading == PmDetectHeading
SpecHeading == InitHeading /\ [][NextHeading]_vars

\* the longest run of digits and dots at the start of the line
NumberEnd(line) ==
    Greatest({k \in 0 .. Len(line) : \A j \in 1 .. k : line[j] \in (48 .. 57) \cup {46}})
HasSectionNumber(line) ==
    /\ line # <<>> /\ line[1] \in 48 .. 57
    /\ \E j \in 1 .. NumberEnd(line) : line[j] = 46
DotsInNumber(line) == Cardinality({j \in 1 .. NumberEnd(line) : line[j] = 46})
Remainder(line) ==
    LET spaces == Greatest({k \in NumberEnd(line) .. Len(line) :
                               \A j \in NumberEnd(line) + 1 .. k : line[j] = 32})
    IN Drop(line, spaces)
HashHeading(line) ==
    [k \in 1 .. Min(DotsInNumber(line), 3) |-> 35] \o <<32>> \o line
OtherHeadingRule(line) == IsPrefix(Appendix, ToLowercase(line))
Utf8Bytes(line) ==
    Len(line) + Cardinality({j \in DOMAIN line : line[j] >= 128})
        + Cardinality({j \in DOMAIN line : line[j] >= 2048})

HeadingResultIs(numbered, line) ==
    IF numbered THEN pm.result = Some(Some(HashHeading(line)))
    ELSE pm.result = Some(None) \/ OtherHeadingRule(line)

-----------------------------------------------------------------------------
(* heuristic.rs: plain_to_markdown and its tables.                         *)

\* the k-th smallest element of a set of numbers
Nth(S, k) == CHOOSE x \in S : Cardinality({y \in S : y < x}) = k - 1
\* str::split(ch)
SplitOn(s, ch) ==
    LET at == {i \in DOMAIN s : s[i] = ch}
        n == Cardinality(at)
    IN [k \in 1 .. n + 1 |->
           SubSeq(s, IF k = 1 THEN 1 ELSE Nth(at, k - 1) + 1,
                     IF k = n + 1 THEN Len(s) ELSE Nth(at, k) - 1)]
\* str::replace(ch, to)
Replace(s, ch, to) == Concat([i \in DOMAIN s |-> IF s[i] = ch THEN to ELSE <<s[i]>>])

\* str::lines(): the pieces between line feeds, without the empty piece after
\* a final line feed and without the carriage return of a "\r\n"
str_lines(text) ==
    LET pieces == SplitOn(text, 10)
        n == Len(pieces)
        kept == IF pieces[n] = <<>> THEN n - 1 ELSE n
    IN [k \in 1 .. kept |->
           IF k < n /\ EndsWith(pieces[k], 13)
           THEN Take(pieces[k], Len(pieces[k]) - 1) ELSE pieces[k]]

\* slice::chunks(ncols)
chunks(cells, ncols) ==
    [k \in 1 .. (Len(cells) + ncols - 1) \div ncols |->
        SubSeq(cells, (k - 1) * ncols + 1, Min(k * ncols, Len(cells)))]

\* the first of 3, 4, 5, 2 that divides n and leaves two rows or more, or
\* min(n, 6)
FallbackColumns(n) ==
    LET fits(ncols) == n % ncols = 0 /\ n \div ncols >= 2
    IN IF fits(3) THEN 3 ELSE IF fits(4) THEN 4 ELSE IF fits(5) THEN 5
       ELSE IF fits(2) THEN 2 ELSE Min(n, 6)

detect_column_count(cells) ==
    LET n == Len(cells)
        at == {i - 1 : i \in {j \in DOMAIN cells : cells[j] = <<>>}}
        empties == [k \in 1 .. Cardinality(at) |-> Nth(at, k)]
        first_gap == empties[1] + 1
        consistent == \A k \in 1 .. Len(empties) - 1 : empties[k + 1] - empties[k] = first_gap
    IN IF n <= 2 THEN 1
       ELSE IF n <= 6 THEN n
       ELSE IF Len(empties) >= 2 /\ consistent /\ first_gap \in 2 .. 10 THEN first_gap
       ELSE FallbackColumns(n)

\* one table row: "|" and " cell |" for each of the ncols columns
TableLine(row, ncols) ==
    <<124>> \o Concat([ci \in 1 .. ncols |->
                          <<32>> \o Replace(IF ci \in DOMAIN row THEN row[ci] ELSE <<>>,
                                            124, <<92, 124>>)
                              \o <<32, 124>>])
               \o <<10>>
TableSeparator(ncols) ==
    <<124>> \o Concat([ci \in 1 .. ncols |-> <<32, 45, 45, 45, 32, 124>>]) \o <<10>>

\* what render_table emits for the cells of one input line
RenderCells(cells) ==
    LET ncols == detect_column_count(cells)
        text == Trim(Join(cells, <<32>>))
        rows == SelectSeq(chunks(cells, ncols), LAMBDA row : \E c \in DOMAIN row : row[c] # <<>>)
    IN IF ncols <= 1 THEN (IF text # <<>> THEN text \o <<10, 10>> ELSE <<>>)
       ELSE IF rows = <<>> THEN <<>>
       ELSE Concat([ri \in DOMAIN rows |->
                       TableLine(rows[ri], ncols)
                           \o (IF ri = 1 THEN TableSeparator(ncols) ELSE <<>>)])
                \o <<10>>

\* the cells of a line: split by tab, each trimmed
LineCells(line) ==
    LET pieces == SplitOn(Trim(line), 9)
    IN [k \in DOMAIN pieces |-> Trim(pieces[k])]

\* the text appended to out
render_table(lines) ==
    Concat([k \in DOMAIN lines |-> RenderCells(LineCells(lines[k]))])

\* the frame of plain_to_markdown; i counts from 1
PmLine == Trim(pm.lines[pm.i])
PmAtLine == pm.pc = "loop" /\ pm.i <= Len(pm.lines)

PmBlankLine ==
    /\ PmAtLine /\ PmLine = <<>>
    /\ pm' = [pm EXCEPT !.i = pm.i + 1]
    /\ UNCHANGED PmOthers

PmTabRun ==
    /\ PmAtLine /\ Contains(PmLine, 9)
    /\ LET i == SkipWhile(pm.lines, pm.i, LAMBDA l : Contains(Trim(l), 9))
           run == SubSeq(pm.lines, pm.i, i - 1)
           tab_count == CountChar(run[1], 9)
           text == Trim(Replace(PmLine, 9, <<32>>))
       IN pm' = [pm EXCEPT
                    !.i = i,
                    !.out = IF Len(run) >= 2 \/ tab_count >= 5 THEN pm.out \o render_table(run)
                            ELSE IF text # <<>> THEN pm.out \o text \o <<10, 10>>
                            ELSE pm.out]
    /\ UNCHANGED PmOthers

PmHeading ==
    /\ PmAtLine /\ PmLine # <<>> /\ ~Contains(PmLine, 9)
    /\ IsSome(detect_numbered_heading(PmLine))
    /\ pm' = [pm EXCEPT !.i = pm.i + 1,
                        !.out = pm.out \o Unwrap(detect_numbered_heading(PmLine)) \o <<10, 10>>]
    /\ UNCHANGED PmOthers

PmSubheading ==
    /\ PmAtLine /\ PmLine # <<>> /\ ~Contains(PmLine, 9)
    /\ ~IsSome(detect_numbered_heading(PmLine))
    /\ is_likely_subheading(PmLine, pm.i, pm.lines)
    /\ pm' = [pm EXCEPT !.i = pm.i + 1,
                        !.out = pm.out \o <<42, 42>> \o PmLine \o <<42, 42, 10, 10>>]
    /\ UNCHANGED PmOthers

PmParagraph ==
    /\ PmAtLine /\ PmLine # <<>> /\ ~Contains(PmLine, 9)
    /\ ~IsSome(detect_numbered_heading(PmLine))
    /\ ~is_likely_subheading(PmLine, pm.i, pm.lines)
    /\ pm' = [pm EXCEPT !.i = pm.i + 1, !.out = pm.out \o PmLine \o <<10, 10>>]
    /\ UNCHANGED PmOthers

PmReturn ==
    /\ pm.pc = "loop" /\ pm.i > Len(pm.lines)
    /\ pm' = [pm EXCEPT !.pc = "done"]
    /\ UNCHANGED PmOthers

\* doc.rs extract_markdown: plain_to_markdown(extract_plain(data)), from the
\* decoded code units of the document on
PmExtract ==
    /\ pm.pc = "extract"
    /\ pm' = [pm EXCEPT !.pc = "loop",
                        !.lines = str_lines(chars_to_text(Unwrap(pm.chars)))]
    /\ UNCHANGED PmOthers

NextPm ==
    PmExtract \/ PmBlankLine \/ PmTabRun \/ PmHeading \/ PmSubheading \/ PmParagraph
        \/ PmReturn

\* a call of plain_to_markdown, and one of extract_markdown
PmStart(text) ==
    [pc |-> "loop", chars |-> None, lines |-> str_lines(text), i |-> 1, out |-> <<>>]
MdStart(chars) ==
    [pc |-> "extract", chars |-> Some(chars), lines |-> <<>>, i |-> 1, out |-> <<>>]


-----------------------------------------------------------------------------
(* Tables in the markdown of a .doc.                                       *)

MaxTextLines == 3
MaxMegaRows == 3
MaxMegaCols == 4

\* "", "a", "1.a", "A b", "a<tab>b", "a<tab>b<tab>c", " a<tab><tab>b|",
\* six cells, nine cells with no empty one, and two cells before five tabs
TextLines ==
    {<<>>, <<97>>, <<49, 46, 97>>, <<65, 32, 98>>,
     <<97, 9, 98>>, <<97, 9, 98, 9, 99>>, <<32, 97, 9, 9, 98, 124>>,
     <<97, 9, 98, 9, 99, 9, 100, 9, 101, 9, 102>>,
     <<97, 9, 98, 9, 99, 9, 100, 9, 101, 9, 102, 9, 103, 9, 104, 9, 105>>,
     <<97, 9, 98, 9, 9, 9, 9, 9>>}
Texts ==
    {Concat([k \in DOMAIN ls |-> ls[k] \o <<10>>]) : ls \in SeqsUpTo(TextLines, MaxTextLines)}

\* the table of rows x cols cells A, B, C, ...
LetterTable(rows, cols) ==
    [r \in 1 .. rows |-> [c \in 1 .. cols |-> <<64 + (r - 1) * cols + c>>]]
MegaTables ==
    {LetterTable(rows, cols) : rows \in 2 .. MaxMegaRows, cols \in 2 .. MaxMegaCols}
\* the paragraph of a table: each cell and its mark, each row followed by
\* one more mark, and the paragraph end
MegaLine(table, mark) ==
    Concat([r \in DOMAIN table |->
               Concat([c \in DOMAIN table[r] |-> table[r][c] \o <<mark>>]) \o <<mark>>])
        \o <<13>>
CellMarks == {7, 9}

InitMarkdown ==
    /\ \/ \E text \in Texts : pm = PmStart(text)
       \/ \E table \in MegaTables, mark \in CellMarks : pm = MdStart(MegaLine(table, mark))
    /\ AllIdleBut("pm")
SpecMarkdown == InitMarkdown /\ [][NextPm]_vars

HasTab(line) == \E k \in DOMAIN Trim(line) : Trim(line)[k] = 9
\* the last line of the run of tab-bearing lines that starts at line i
RunLast(lines, i) ==
    Greatest({j \in i .. Len(lines) : \A k \in i .. j : HasTab(lines[k])})
\* the cells between the tabs of a line, trimmed
CellsBetweenTabs(line) ==
    LET t == Trim(line)
        tabs == {0, Len(t) + 1} \cup {k \in DOMAIN t : t[k] = 9}
    IN [n \in 1 .. Cardinality(tabs) - 1 |->
           Trim(SubSeq(t, Nth(tabs, n) + 1, Nth(tabs, n + 1) - 1))]
TabsAsSpaces(line) == [k \in DOMAIN line |-> IF line[k] = 9 THEN 32 ELSE line[k]]
\* one table: a row line for each given row, a separator line after the
\* first and nowhere else, and a blank line
IsOneTable(chunk, rows) ==
    LET ls == LinesOf(chunk)
    IN /\ EndsLines(chunk)
       /\ Len(ls) = Len(rows) + 2
       /\ ls[Len(ls)] = <<>>
       /\ IsSeparatorLine(ls[2])
       /\ \A r \in DOMAIN rows :
            LET l == ls[IF r = 1 THEN 1 ELSE r + 1]
            IN /\ ~IsSeparatorLine(l)
               /\ IsPrefix(LineOfCells(rows[r]), l)
               /\ CellsIn(l) = CellsIn(ls[2])
RunChunkOk(run, chunk) ==
    IF Len(run) >= 2
    THEN IsOneTable(chunk, [r \in DOMAIN run |-> CellsBetweenTabs(run[r])])
    ELSE /\ (chunk # <<>> /\ chunk[1] = 124) => Cardinality({k \in DOMAIN run[1] : run[1][k] = 9}) >= 5
         /\ Cardinality({k \in DOMAIN run[1] : run[1][k] = 9}) < 5 =>
                chunk = Trim(TabsAsSpaces(Trim(run[1]))) \o <<10, 10>>

\* C17: a maximal run of two or more contiguous tab-bearing lines is rendered
\* as one markdown table, each line a row and only the first row followed by
\* a separator line, whatever the number of cells of the lines; a run of one
\* line is a table only if the line has at least 5 tabs, and otherwise is
\* the paragraph of the line with its tabs replaced by spaces.
C17_TabRuns ==
    [][(pm.pc = "loop" /\ pm.i <= Len(pm.lines) /\ HasTab(pm.lines[pm.i]))
          => RunChunkOk(SubSeq(pm.lines, pm.i, RunLast(pm.lines, pm.i)),
                        Drop(pm'.out, Len(pm.out)))]_vars

TableText(table) ==
    Concat([k \in 1 .. Len(table) + 1 |->
               (IF k = 2 THEN <<124>> \o Concat([c \in DOMAIN table[1] |-> <<32, 45, 45, 45, 32, 124>>])
                ELSE LineOfCells(table[IF k = 1 THEN 1 ELSE k - 1])) \o <<10>>])
        \o <<10>>

\* C18: a .doc paragraph that is a mega-line, each row of cells followed by
\* one empty cell, becomes on the markdown path a single table of the data
\* cells only, the first row followed by the separator line: "A B C" and
\* "D E F" in 3 columns for the mega-line of two rows of three cells.
C18_MegaLine ==
    pm.pc = "done" =>
        \A table \in MegaTables, mark \in CellMarks :
            pm.chars = Some(MegaLine(table, mark)) => pm.out = TableText(table)


-----------------------------------------------------------------------------
(* docx.rs: parse_heading_level.                                           *)

\* str::strip_prefix: Some(rest) or None
strip_prefix(s, prefix) ==
    IF IsPrefix(prefix, s) THEN Some(Drop(s, Len(prefix))) ELSE None

\* the number a string of decimal digits stands for
RECURSIVE DecimalValue(_)
DecimalValue(digits) ==
    IF digits = <<>> THEN 0
    ELSE 10 * DecimalValue(Take(digits, Len(digits) - 1)) + (digits[Len(digits)] - 48)

\* the digits without their leading zeros
TrimZeros(digits) ==
    LET k == FirstIndex(digits, LAMBDA d : d # 48)
    IN IF k = 0 THEN <<>> ELSE Drop(digits, k - 1)

\* str::parse::<u8>().ok(): an optional '+', then one digit or more, no other
\* character, a value of at most 255
parse_u8(s) ==
    LET digits == IF s # <<>> /\ s[1] = 43 THEN Drop(s, 1) ELSE s
    IN IF digits = <<>> \/ \E k \in DOMAIN digits : digits[k] \notin 48 .. 57 THEN None
       ELSE IF Len(TrimZeros(digits)) > 3 THEN None
       ELSE IF DecimalValue(TrimZeros(digits)) > 255 THEN None
       ELSE Some(DecimalValue(TrimZeros(digits)))

HeadingWord == <<72, 101, 97, 100, 105, 110, 103>>
TitleWord == <<116, 105, 116, 108, 101>>
SubtitleWord == <<115, 117, 98, 116, 105, 116, 108, 101>>

parse_heading_level(val) ==
    LET lower == ToLowercase(val)
    IN IF IsSome(strip_prefix(val, HeadingWord))
       THEN parse_u8(Unwrap(strip_prefix(val, HeadingWord)))
       ELSE IF IsSome(strip_prefix(lower, ToLowercase(HeadingWord)))
       THEN parse_u8(Trim(Unwrap(strip_prefix(lower, ToLowercase(HeadingWord)))))
       ELSE IF lower = TitleWord THEN Some(1)
       ELSE IF lower = SubtitleWord THEN Some(2)
       ELSE None

HlOthers == <<ct, ep, df, px, rs, ss, sx, ds, si, rk, fs, rr, rm, pm, mn, pp, hk>>

HlParse ==
    /\ hl.pc = "parse"
    /\ hl' = [hl EXCEPT !.pc = "done", !.result = Some(parse_heading_level(hl.val))]
    /\ UNCHANGED HlOthers

HlStart(val) == [pc |-> "parse", val |-> val, result |-> None]

-----------------------------------------------------------------------------
(* Heading styles.                                                         *)

MaxSpaces == 2
\* a word in every mix of upper and lower case
CaseVariants(word) ==
    {[k \in DOMAIN word |-> IF upper[k] THEN word[k] - 32 ELSE word[k]] :
        upper \in [DOMAIN word -> BOOLEAN]}
\* what follows the word Heading: nothing, a digit, "10", "01", "255",
\* "256", "+1", "-1", "X", "1 "
StyleTails ==
    {<<>>, <<49, 48>>, <<48, 49>>, <<50, 53, 53>>, <<50, 53, 54>>, <<43, 49>>, <<45, 49>>,
     <<88>>, <<49, 32>>} \cup {<<d>> : d \in 48 .. 57}
StyleValues ==
    {word \o [k \in 1 .. n |-> 32] \o tail :
        word \in CaseVariants(ToLowercase(HeadingWord)), n \in 0 .. MaxSpaces, tail \in StyleTails}
      \cup CaseVariants(TitleWord) \cup CaseVariants(SubtitleWord)
      \cup {<<>>, <<78, 111, 114, 109, 97, 108>>, <<32>> \o TitleWord,
            <<97>> \o HeadingWord \o <<49>>}

InitStyle == (\E val \in StyleValues : hl = HlStart(val)) /\ AllIdleBut("hl")
SpecStyle == InitStyle /\ [][HlParse]_vars

\* the word Heading in any letter case, at most one space, a digit 1..9
IsHeadingStyle(val) ==
    \E spaces \in 0 .. 1 :
        /\ Len(val) = 7 + spaces + 1
        /\ \A k \in 1 .. 7 : val[k] \in {HeadingWord[k], HeadingWord[k] + 32, HeadingWord[k] - 32}
        /\ \A k \in 8 .. 7 + spaces : val[k] = 32
        /\ val[Len(val)] \in 49 .. 57
SameLetters(val, word) ==
    /\ Len(val) = Len(word)
    /\ \A k \in DOMAIN word : val[k] \in {word[k], word[k] - 32}

\* C20: the word Heading in any letter case, optionally followed by one
\* space, followed by a digit 1..9 maps to that digit, for every combination
\* of case and with or without the space; Title maps to 1 and Subtitle to 2
\* (in any letter case); every other value is not a heading.
C20_HeadingLevel ==
    hl.pc = "done" =>
        IF IsHeadingStyle(hl.val) THEN hl.result = Some(Some(hl.val[Len(hl.val)] - 48))
        ELSE IF SameLetters(hl.val, TitleWord) THEN hl.result = Some(Some(1))
        ELSE IF SameLetters(hl.val, SubtitleWord) THEN hl.result = Some(Some(2))
        ELSE hl.result = Some(None)


-----------------------------------------------------------------------------
(* Nested fields of a .doc.                                                *)

\* what a field that ends leaves behind: the link of a HYPERLINK field, the
\* display text of another field, nothing without a separator
FieldResult(state) ==
    IF state.kind = "Instruction" THEN <<>>
    ELSE IF IsSome(state.url) THEN MarkdownLink(Trim(state.text), Unwrap(state.url))
    ELSE state.text

\* C24: when a field ends (0x0015) while another field is still open, its
\* result is appended to the current buffer of the enclosing field and the
\* paragraph is left alone; only a field with no enclosing field emits into
\* the paragraph.
C24_NestedFieldResult ==
    [][(/\ ct.pc = "loop" /\ ct'.pc = "loop"
        /\ ct'.chars = ct.chars \o <<\h15>>
        /\ ct.field_stack # <<>>)
          => LET state == Last(ct.field_stack)
                 enclosing == [ct EXCEPT !.field_stack = Front(ct.field_stack)]
             IN /\ Destination(ct') = Destination(enclosing) \o FieldResult(state)
                /\ Len(ct.field_stack) >= 2 => ct'.paragraph = ct.paragraph]_vars


-----------------------------------------------------------------------------
(* Paragraphs of a .doc.                                                   *)

MaxPara == 5
\* the three paragraph marks, space, "a", a cell mark and the field marks
ParaTokens ==
    {<<\h0B>>, <<\h0C>>, <<\h0D>>, <<32>>, <<97>>, <<\h07>>, <<\h13>>, <<\h14>>, <<\h15>>}
CtFeedPara == \E tok \in ParaTokens : CtFeed(tok, MaxPara)
NextPara == CtFeedPara \/ CtFinish
SpecPara == InitDoc /\ [][NextPara]_vars

IsParagraphMark(c) == c \in {\h0B, \h0C, \h0D}
\* the stretches of a stream between its paragraph marks and its ends
Stretches(s) ==
    LET cuts == {0, Len(s) + 1} \cup {k \in DOMAIN s : IsParagraphMark(s[k])}
    IN [n \in 1 .. Cardinality(cuts) - 1 |->
           SubSeq(s, Nth(cuts, n) + 1, Nth(cuts, n + 1) - 1)]
\* the text of a stretch of space, letters and cell marks, right-trimmed
StretchText(stretch) ==
    LET text == [k \in DOMAIN stretch |-> IF stretch[k] = \h07 THEN 9 ELSE stretch[k]]
        keep == {k \in DOMAIN text : \E j \in k .. Len(text) : text[j] \notin {9, 32}}
    IN [k \in 1 .. Cardinality(keep) |-> text[k]]
ParagraphTexts(s) ==
    SelectSeq([n \in DOMAIN Stretches(s) |-> StretchText(Stretches(s)[n])],
              LAMBDA text : text # <<>>)
\* each paragraph and its newline, a blank line before all but the first
ParagraphsText(paragraphs) ==
    Concat([n \in DOMAIN paragraphs |->
               (IF n = 1 THEN <<>> ELSE <<10>>) \o paragraphs[n] \o <<10>>])
NoFieldMark(s) == \A k \in DOMAIN s : ~IsMarker(s[k])

\* C25: each paragraph mark 0x000B, 0x000C, 0x000D outside a field, and the
\* end of the stream, flushes the paragraph; a paragraph empty after
\* right-trimming gives no output; the output is the non-empty right-trimmed
\* paragraphs in stream order, each ending with one newline and separated
\* from the one before by exactly one blank line: it never begins with a
\* newline and never holds two blank lines in a row.
C25_Paragraphs ==
    ct.pc = "done" =>
        /\ NoFieldMark(ct.chars) => ct.output = ParagraphsText(ParagraphTexts(ct.chars))
        /\ ct.output # <<>> => ct.output[1] # 10 /\ Last(ct.output) = 10
        /\ \A k \in 1 .. Len(ct.output) - 2 :
             ~(ct.output[k] = 10 /\ ct.output[k + 1] = 10 /\ ct.output[k + 2] = 10)

\* "a " 0x0D 0x0D "a" gives "a\n\na\n"
C25_Witness ==
    /\ ct.pc = "done"
    /\ ct.chars = <<97, 32, \h0D, \h0D, 97>>
    /\ ct.output = <<97, 10, 10, 97, 10>>


-----------------------------------------------------------------------------
(* The field counter and the field stack.                                  *)

DepthIsStackSize(f) == f.field_depth = Len(f.field_stack) /\ f.field_depth >= 0
\* the frame but for the record of the stream consumed
SameButStream(f, g) == [f EXCEPT !.chars = <<>>, !.fed = 0] = [g EXCEPT !.chars = <<>>, !.fed = 0]

\* C28: throughout chars_to_text the field counter equals the number of
\* entries on the field stack and is never negative: 0x0013 adds one to
\* both, 0x0015 takes one from both when a field is open and changes
\* neither when none is, 0x0014 changes neither; a character goes to a
\* field buffer exactly when the stack is not empty, and a stray 0x0014 or
\* 0x0015 outside any field leaves the paragraph untouched.
C28_DepthIsStackSize ==
    [][/\ DepthIsStackSize(ct) /\ DepthIsStackSize(ct')
       /\ (ct.pc = "loop" /\ ct'.pc = "loop") =>
            LET c == Last(ct'.chars)
                open == Len(ct.field_stack)
            IN /\ c = \h13 => ct'.field_depth = ct.field_depth + 1
                              /\ Len(ct'.field_stack) = open + 1
               /\ (c = \h15 /\ open > 0) => ct'.field_depth = ct.field_depth - 1
                                            /\ Len(ct'.field_stack) = open - 1
               /\ (c \in {\h14, \h15} /\ open = 0) => SameButStream(ct, ct')
               /\ c = \h14 => ct'.field_depth = ct.field_depth
                              /\ Len(ct'.field_stack) = open
               /\ (c \in {32, 97} /\ open > 0) =>
                      /\ Destination(ct') = Destination(ct) \o <<c>>
                      /\ ct'.paragraph = ct.paragraph /\ ct'.output = ct.output
               /\ (c \in {32, 97} /\ open = 0) =>
                      /\ ct'.paragraph = ct.paragraph \o <<c>>
                      /\ ct'.field_stack = <<>>]_vars

\* two fields opened and three field ends: the counter is back at 0 and
\* stays there
C28_Witness ==
    /\ ct.pc = "loop"
    /\ ct.chars = <<\h13, \h13, \h15, \h15, \h15>>
    /\ ct.field_depth = 0 /\ ct.field_stack = <<>> /\ ct.paragraph = <<>>


-----------------------------------------------------------------------------
(* A field left open at the end of the stream.                             *)

CountIn(s, c) == Cardinality({k \in DOMAIN s : s[k] = c})
\* the field that begins at b is never ended: after b no 0x0015 finds it
\* innermost
OpenToTheEnd(s, b) ==
    /\ b \in DOMAIN s /\ s[b] = \h13
    /\ \A e \in b + 1 .. Len(s) :
         CountIn(SubSeq(s, b + 1, e), \h15) <= CountIn(SubSeq(s, b + 1, e), \h13)

\* C30: a field still open at the end of the stream contributes nothing to
\* the output: every character after its begin mark is collected into field
\* buffers that are discarded, and the text before the field is emitted as
\* the last paragraph.
C30_OpenFieldDiscarded ==
    ct.pc = "done" =>
        \A b \in DOMAIN ct.chars :
            (NoFieldMark(Take(ct.chars, b - 1)) /\ OpenToTheEnd(ct.chars, b)) =>
                ct.output = ParagraphsText(ParagraphTexts(Take(ct.chars, b - 1)))


-----------------------------------------------------------------------------
(* main.rs: main, the loop over the input files.                           *)
(* An input file is what the environment answers for it: whether reading   *)
(* it succeeds, the length of what was read, and how run() ends on it      *)
(* ("ok", or the error of detect_format, of the extraction, or of the      *)
(* write to stdout).  `reads` is the trace of the read calls.              *)

MAX_INPUT_SIZE == 256 * 1024 * 1024

TooLarge_from_limit(len) == len >= MAX_INPUT_SIZE
TooLarge(len) == len > MAX_INPUT_SIZE

\* run(&buf, ...) returned Ok(())
run(file) == file.run = "ok"

MnOthers == <<ct, ep, df, px, rs, ss, sx, ds, si, rk, fs, rr, rm, pm, hl, pp, hk>>

\* one iteration of `for (i, path) in files.iter().enumerate()`
MnFile ==
    /\ mn.pc = "loop"
    /\ mn.i < Len(mn.files)
    /\ LET file == mn.files[mn.i + 1]
           read == [mn EXCEPT !.i = mn.i + 1, !.reads = Append(mn.reads, mn.i)]
       IN mn' = IF ~file.read_ok THEN [read EXCEPT !.exit_code = 1]
                ELSE IF TooLarge(file.len) THEN [read EXCEPT !.exit_code = 1]
                ELSE IF ~run(file) THEN [read EXCEPT !.exit_code = 1]
                ELSE read
    /\ UNCHANGED MnOthers

\* after the loop: process::exit(exit_code), or the return from main
MnExit ==
    /\ mn.pc = "loop"
    /\ mn.i >= Len(mn.files)
    /\ mn' = [mn EXCEPT !.pc = "exited", !.status = Some(mn.exit_code)]
    /\ UNCHANGED MnOthers

NextMn == MnFile \/ MnExit

MnStart(files) ==
    [pc |-> "loop", files |-> files, i |-> 0, exit_code |-> 0, reads |-> <<>>,
     status |-> None]

MaxFiles == 3
FileKinds ==
    {[read_ok |-> FALSE, len |-> 0, run |-> "ok"],
     [read_ok |-> TRUE, len |-> MAX_INPUT_SIZE + 1, run |-> "ok"]}
        \cup [read_ok : {TRUE}, len : {0, MAX_INPUT_SIZE},
              run : {"ok", "format", "extract", "write"}]
InitMain ==
    /\ \E files \in SeqsUpTo(FileKinds, MaxFiles) : files # <<>> /\ mn = MnStart(files)
    /\ AllIdleBut("mn")
SpecMain == InitMain /\ [][NextMn]_vars

\* a file succeeded: it was read, is not over 256 MiB, has a recognised
\* format, was extracted and written
Succeeded(file) ==
    /\ file.read_ok
    /\ file.len <= 268435456
    /\ file.run \notin {"format", "extract", "write"}

\* C23: every listed file is attempted, in order, however the files before
\* it ended, and the exit code is 0 if and only if every file succeeded and
\* 1 if and only if at least one failed.
C23_EveryFileAttempted ==
    /\ mn.pc \in {"loop", "exited"} =>
          /\ mn.reads = [k \in 1 .. Len(mn.reads) |-> k - 1]
          /\ Len(mn.reads) <= Len(mn.files)
    /\ mn.pc = "exited" =>
          /\ Len(mn.reads) = Len(mn.files)
          /\ Unwrap(mn.status) \in {0, 1}
          /\ Unwrap(mn.status) = 0 <=> \A k \in DOMAIN mn.files : Succeeded(mn.files[k])
          /\ Unwrap(mn.status) = 1 <=> \E k \in DOMAIN mn.files : ~Succeeded(mn.files[k])

\* an unreadable file, a file of exactly 256 MiB and a file of no known
\* format: all three were read, the exit code is 1
C23_Witness ==
    /\ mn.pc = "exited"
    /\ Len(mn.files) = 3
    /\ ~mn.files[1].read_ok
    /\ mn.files[2] = [read_ok |-> TRUE, len |-> MAX_INPUT_SIZE, run |-> "ok"]
    /\ mn.files[3].run = "format"
    /\ mn.reads = <<0, 1, 2>>
    /\ mn.status = Some(1)


-----------------------------------------------------------------------------
(* The limit on the cells of an xls grid.                                  *)
(* Sheets of cells at (999, 0), (0, 999) and (1000, 0): a grid of          *)
(* 1000 x 1000 is the largest one allowed, 1001 x 1000 the smallest one    *)
(* refused.  Row and column indices are u16, so that max_row * max_col is  *)
(* at most 2^32: checked_mul fails only where usize has 32 bits, and then  *)
(* the product is over the limit as well.                                  *)

MaxLimitCells == 2
EdgeIndex == 999
LimitKinds ==
    {CellRec(REC_LABEL, EdgeIndex, 0, <<97>>), CellRec(REC_LABEL, 0, EdgeIndex, <<98>>),
     CellRec(REC_LABEL, EdgeIndex + 1, 0, <<99>>)}
InitLimit ==
    /\ \E body \in SeqsUpTo(LimitKinds, MaxLimitCells) :
         \E head \in {<<BofRec>>, <<>>} : \E tail \in {<<EofRec>>, <<>>} :
            ss = SsStart(<<>>, <<83>>, <<>>, head \o body \o tail)
    /\ AllIdleBut("ss")
NextLimit == SsVerifyBof \/ SsRecord \/ SsEnd \/ SsReturn
SpecLimit == InitLimit /\ [][NextLimit]_vars

\* the number of cells of a grid
GridCells(rows) == IF rows = <<>> THEN 0 ELSE Len(rows) * Len(rows[1])

\* C26: with R the largest row index seen plus 1 and C the largest column
\* index seen plus 1, the grid of an xls sheet is empty if R x C exceeds
\* 1,000,000 and is otherwise the full grid of R rows of C cells each, every
\* recorded cell inside it and holding a value recorded for its position; no
\* grid has more than 1,000,000 cells.
C26_GridLimit ==
    ss.pc = "parsed" =>
        LET cells == XlsCells(ss.records)
            R == Height(cells)
            C == Width(cells)
            rows == Unwrap(ss.rows)
        IN /\ GridCells(rows) <= 1000000
           /\ R * C > 1000000 => rows = <<>>
           /\ R * C <= 1000000 =>
                 /\ Len(rows) = R
                 /\ \A r \in DOMAIN rows : Len(rows[r]) = C
                 /\ \A i \in DOMAIN cells :
                       /\ InGrid(rows, cells[i].row, cells[i].col)
                       /\ \E j \in RecordedAt(cells, cells[i].row, cells[i].col) :
                             rows[cells[i].row + 1][cells[i].col + 1] = cells[j].value

\* cells at (999, 0) and (0, 999): the grid of exactly 1,000,000 cells
C26_Witness ==
    /\ ss.pc = "parsed"
    /\ Len(XlsCells(ss.records)) = 2
    /\ XlsCells(ss.records)[1].row = EdgeIndex /\ XlsCells(ss.records)[2].col = EdgeIndex
    /\ Len(Unwrap(ss.rows)) = EdgeIndex + 1
    /\ Len(Unwrap(ss.rows)[1]) = EdgeIndex + 1
    /\ GridCells(Unwrap(ss.rows)) = 1000000
    /\ Unwrap(ss.rows)[EdgeIndex + 1][1] = <<97>>
    /\ Unwrap(ss.rows)[1][EdgeIndex + 1] = <<98>>
    /\ Unwrap(ss.rows)[EdgeIndex + 1][EdgeIndex + 1] = <<>>


-----------------------------------------------------------------------------
(* The end of the character loop of read_biff8_string.                     *)
(* An SST record of two strings followed by up to MaxBody bytes, with no,  *)
(* one or two CONTINUE boundaries among the offsets of those bytes: the    *)
(* bytes give every header (character counts 0, 1, 2, 4, 9 and more than   *)
(* the buffer holds; compressed and UTF-16; with a rich-run count, with an *)
(* extension length) and every truncation of it.                           *)

MaxBody == 4
BodyBytes == {0, 1, 2, 4, 9}
BoundaryLists(len) ==
    {<<>>} \cup {<<p>> : p \in 8 .. 8 + len}
           \cup {<<p, q>> : p \in 8 .. 8 + len, q \in 8 .. 8 + len}
InitTrunc ==
    /\ \E body \in SeqsUpTo(BodyBytes, MaxBody) :
         \E b \in {c \in BoundaryLists(Len(body)) : Len(c) = 2 => c[1] <= c[2]} :
            rs = RsStart(SstHeader \o body, b)
    /\ AllIdleBut("rs")
SpecTrunc == InitTrunc /\ [][NextRs]_vars /\ WF_vars(NextRs)

\* C27: read_biff8_string, and parse_sst that calls it, terminate on every
\* buffer, character count, flag byte and list of boundaries.
C27_Terminates == <>(rs.pc = "done")


-----------------------------------------------------------------------------
(* Two serials rendered one after the other.                               *)
(* `pending` holds the serial of the next call and `rendered` the serial   *)
(* and the text of the calls that have returned.                           *)

\* the next date cell: serial_to_iso is called again
SiSecond ==
    /\ si.pc = "done"
    /\ si.pending # <<>>
    /\ si' = SiStart(Head(si.pending))
                @@ [pending |-> Tail(si.pending),
                    rendered |-> Append(si.rendered,
                                    [serial |-> si.serial, text |-> Unwrap(si.result)])]
    /\ UNCHANGED SiOthers

\* the days 1, 2, 59..61 and 45292, whole and with the fractions 0.25, 0.5,
\* 0.75, 1e-11 and 0.999995
PairDays == {1, 2, 59, 60, 61, 45292}
PairSerials ==
    {Whole(n) : n \in PairDays}
        \cup {Finite(FALSE, n, f.num, f.len) : n \in PairDays, f \in Fractions}
InitPair ==
    /\ \E a \in PairSerials : \E b \in PairSerials :
          si = SiStart(a) @@ [pending |-> <<b>>, rendered |-> <<>>]
    /\ AllIdleBut("si")
NextPair == NextSi \/ SiSecond
SpecPair == InitPair /\ [][NextPair]_vars

\* s before t, or equal to it, in the order of the dictionary
LexLeq(s, t) ==
    \/ s = t
    \/ \E i \in DOMAIN s :
          /\ i \in DOMAIN t
          /\ \A j \in 1 .. i - 1 : s[j] = t[j]
          /\ s[i] < t[i]
\* the digits of the fraction of x, to 11 places
FractionDigits(x) ==
    ZeroPad(Digits(x.num), x.len) \o [k \in 1 .. 11 - x.len |-> 48]
SerialLess(a, b) ==
    \/ a.whole < b.whole
    \/ a.whole = b.whole /\ FractionDigits(a) # FractionDigits(b)
                         /\ LexLeq(FractionDigits(a), FractionDigits(b))
IsDateSerial(x) == x.kind = "finite" /\ ~x.neg /\ x.whole >= 1 /\ x.whole < 2958466
\* a rendered text as a timestamp, a date alone read as 00:00:00
Timestamp(text) ==
    IF Len(text) = 10 THEN text \o <<32, 48, 48, 58, 48, 48, 58, 48, 48>> ELSE text
\* the seconds since midnight of a timestamp
TwoDigits(text, i) == (text[i] - 48) * 10 + (text[i + 1] - 48)
SecondsOfDay(ts) == TwoDigits(ts, 12) * 3600 + TwoDigits(ts, 15) * 60 + TwoDigits(ts, 18)
\* n is the whole number nearest to 86400 times the fraction of x
IsFractionRounded(x, n) ==
    LET len == IF x.len < 2 THEN 2 ELSE x.len
        num == IF x.len < 2 THEN x.num * Pow10(2 - x.len) ELSE x.num
        P == Pow10(len - 2)
    IN IF len > 6 THEN n = 0
       ELSE /\ 2 * n * P - 2 * num * 864 <= P
            /\ 2 * num * 864 - 2 * n * P <= P

\* C29: of two serials a < b, both at least 1 and below 2,958,466, the
\* timestamp rendered for a is not later than the one rendered for b (a date
\* alone read as 00:00:00), and the time of day rendered for a serial is its
\* fraction rounded to whole seconds, between 00:00:00 and 23:59:59.
C29_OrderPreserved ==
    (si.pc = "done" /\ IsDateSerial(si.serial)) =>
        LET ts == Timestamp(Unwrap(si.result))
        IN /\ Len(ts) = 19
           /\ SecondsOfDay(ts) \in 0 .. 86399
           /\ IsFractionRounded(si.serial, SecondsOfDay(ts))
           /\ \A k \in DOMAIN si.rendered :
                 (IsDateSerial(si.rendered[k].serial)
                     /\ SerialLess(si.rendered[k].serial, si.serial))
                 => LexLeq(Timestamp(si.rendered[k].text), ts)


-----------------------------------------------------------------------------
(* pptx.rs: parse_para, parse_para_props, parse_text_run.                  *)
(* The paragraph is the sequence of the child elements of its <a:p>: pPr   *)
(* (`start` tells <a:pPr>...</a:pPr> from the self-closing <a:pPr/>, with  *)
(* its lvl and the set of bullet markers among its children), r and fld    *)
(* (the sz of the rPr, None when absent, and the text of the t) and br.    *)

BulletKind_None == [kind |-> "None", level |-> 0]
Bullet(lvl) == [kind |-> "Bullet", level |-> lvl]
Numbered(lvl) == [kind |-> "Numbered", level |-> lvl]

parse_para_props(start, bullet) ==
    IF "buNone" \in start.markers THEN BulletKind_None
    ELSE IF "buAutoNum" \in start.markers THEN Numbered(start.lvl)
    ELSE IF start.markers \cap {"buChar", "buBlip", "buFont"} # {} THEN Bullet(start.lvl)
    ELSE bullet

parse_text_run(el) ==
    [text |-> el.text, bold |-> FALSE, italic |-> FALSE, link_url |-> None,
     font_size |-> el.font_size]

\* the run of a <a:br/>
BreakRun ==
    [text |-> <<10>>, bold |-> FALSE, italic |-> FALSE, link_url |-> None,
     font_size |-> None]

\* max_font_size.map_or(size, |prev| prev.max(size))
MaxFontSize(max_font_size, size) ==
    IF IsSome(max_font_size) /\ Unwrap(max_font_size) > size THEN max_font_size
    ELSE Some(size)

\* "Infer heading level from font size"
HeadingLevel(max_font_size) ==
    IF ~IsSome(max_font_size) THEN 0
    ELSE LET size == Unwrap(max_font_size)
         IN IF size >= 2800 THEN 1
            ELSE IF size >= 2400 THEN 2
            ELSE IF size >= 2000 THEN 3
            ELSE 0

\* "Bullets and headings are mutually exclusive -- headings win"
HeadingBullet(heading_level, bullet) ==
    IF heading_level > 0 THEN BulletKind_None ELSE bullet

PpOthers == <<ct, ep, df, px, rs, ss, sx, ds, si, rk, fs, rr, rm, pm, hl, mn, hk>>

\* one child element of the paragraph
PpEvent ==
    /\ pp.pc = "events"
    /\ pp.k <= Len(pp.xml)
    /\ LET el == pp.xml[pp.k]
           next == [pp EXCEPT !.k = pp.k + 1]
           text_run == parse_text_run(el)
       IN pp' =
            IF el.tag = "pPr" /\ el.start
            THEN [next EXCEPT !.bullet = parse_para_props(el, pp.bullet)]
            ELSE IF el.tag = "r"
            THEN [next EXCEPT
                    !.max_font_size = IF IsSome(text_run.font_size)
                                      THEN MaxFontSize(pp.max_font_size, Unwrap(text_run.font_size))
                                      ELSE pp.max_font_size,
                    !.runs = IF text_run.text # <<>> THEN Append(pp.runs, text_run) ELSE pp.runs]
            ELSE IF el.tag = "fld"
            THEN [next EXCEPT !.runs = IF text_run.text # <<>> THEN Append(pp.runs, text_run)
                                       ELSE pp.runs]
            ELSE IF el.tag = "br" THEN [next EXCEPT !.runs = Append(pp.runs, BreakRun)]
            ELSE next
    /\ UNCHANGED PpOthers

\* </a:p>: the heading level, and the Paragraph
PpReturn ==
    /\ pp.pc = "events"
    /\ pp.k > Len(pp.xml)
    /\ LET heading_level == HeadingLevel(pp.max_font_size)
       IN pp' = [pp EXCEPT !.pc = "done",
                    !.para = Some([runs |-> pp.runs, heading_level |-> heading_level,
                                   bullet |-> HeadingBullet(heading_level, pp.bullet)])]
    /\ UNCHANGED PpOthers

NextPp == PpEvent \/ PpReturn

PpStart(xml) ==
    [pc |-> "events", xml |-> xml, k |-> 1, runs |-> <<>>, max_font_size |-> None,
     bullet |-> BulletKind_None, para |-> None]

MaxParaChildren == 3
ParaElement(tag, start, lvl, markers, font_size, text) ==
    [tag |-> tag, start |-> start, lvl |-> lvl, markers |-> markers,
     font_size |-> font_size, text |-> text]
FontSizes == {1999, 2000, 2399, 2400, 2799, 2800}
ParaElements ==
    {ParaElement("pPr", TRUE, 1, m, None, <<>>) :
        m \in {{}, {"buChar"}, {"buAutoNum"}, {"buAutoNum", "buChar"}, {"buChar", "buNone"}}}
      \cup {ParaElement("pPr", FALSE, 1, {}, None, <<>>),
            ParaElement("br", FALSE, 0, {}, None, <<>>),
            ParaElement("r", TRUE, 0, {}, None, <<120>>),
            ParaElement("r", TRUE, 0, {}, Some(2800), <<>>),
            ParaElement("fld", TRUE, 0, {}, None, <<49>>),
            ParaElement("fld", TRUE, 0, {}, Some(2800), <<49>>)}
      \cup {ParaElement("r", TRUE, 0, {}, Some(sz), <<120>>) : sz \in FontSizes}
InitPara ==
    /\ \E xml \in SeqsUpTo(ParaElements, MaxParaChildren) : pp = PpStart(xml)
    /\ AllIdleBut("pp")
SpecSlide == InitPara /\ [][NextPp]_vars

\* the font sizes of the runs of the paragraph, fields included
RunSizes(xml) ==
    {Unwrap(xml[i].font_size) : i \in {j \in DOMAIN xml :
                                          /\ xml[j].tag \in {"r", "fld"}
                                          /\ IsSome(xml[j].font_size)}}
IsLargest(sizes, n) == n \in sizes /\ \A m \in sizes : m <= n

\* C21: the heading level of a paragraph is 1 if the largest font size among
\* its runs is at least 2800, 2 if at least 2400, 3 if at least 2000 and 0
\* otherwise, also when no run has a size; a paragraph with a heading level
\* above 0 has no bullet, whatever its pPr holds and wherever it stands.
C21_HeadingFromFontSize ==
    pp.pc = "done" =>
        LET para == Unwrap(pp.para)
            sizes == RunSizes(pp.xml)
        IN /\ sizes = {} => para.heading_level = 0
           /\ \A n \in sizes : IsLargest(sizes, n) =>
                 /\ n >= 2800 => para.heading_level = 1
                 /\ (n >= 2400 /\ n < 2800) => para.heading_level = 2
                 /\ (n >= 2000 /\ n < 2400) => para.heading_level = 3
                 /\ n < 2000 => para.heading_level = 0
           /\ para.heading_level > 0 => para.bullet = BulletKind_None


-----------------------------------------------------------------------------
(* xlsx.rs: cell_ref_to_row, apply_hyperlinks.                             *)
(* The <hyperlinks> of the sheet XML are the sequence of its <hyperlink>   *)
(* elements, each with its ref and r:id; Rels is a function from           *)
(* relationship ids to URLs.                                               *)

\* str::parse::<usize>().ok(): an optional '+', then one digit or more
parse_usize(s) ==
    LET digits == IF s # <<>> /\ s[1] = 43 THEN Drop(s, 1) ELSE s
    IN IF digits = <<>> \/ \E k \in DOMAIN digits : ~is_ascii_digit(digits[k]) THEN None
       ELSE Some(DecimalValue(digits))

cell_ref_to_row(cell_ref) ==
    LET digits == Drop(cell_ref, SkipWhile(cell_ref, 1, IsAsciiAlphabetic) - 1)
        n == IF IsSome(parse_usize(digits)) THEN Unwrap(parse_usize(digits)) ELSE 1
    IN IF n = 0 THEN 0 ELSE n - 1

RelsGet(rels, rid) == IF rid \in DOMAIN rels THEN Some(rels[rid]) ELSE None

\* format!("[{cell}]({url})")
WrapCell(cell, url) == <<91>> \o cell \o <<93, 40>> \o url \o <<41>>

\* the body of the hyperlink arm: rows after one <hyperlink>
ApplyHyperlink(rows, rels, link) ==
    LET url == RelsGet(rels, link.rid)
        col == col_ref_to_index(link.ref)
        row_num == cell_ref_to_row(link.ref)
    IN IF ~IsSome(url) THEN rows
       ELSE IF row_num + 1 \notin DOMAIN rows THEN rows
       ELSE IF col + 1 \notin DOMAIN rows[row_num + 1] THEN rows
       ELSE IF rows[row_num + 1][col + 1] = <<>> THEN rows
       ELSE [rows EXCEPT ![row_num + 1][col + 1] = WrapCell(@, Unwrap(url))]

HkOthers == <<ct, ep, df, px, rs, ss, sx, ds, si, rk, fs, rr, rm, pm, hl, mn, pp>>

\* parse_xlsx: apply_hyperlinks on the rows parse_sheet_xml returned, up to
\* its return on empty rels
HkCall ==
    /\ sx.pc = "done"
    /\ hk = Idle
    /\ hk' = [pc |-> IF DOMAIN sx.rels = {} THEN "done" ELSE "events",
              hyperlinks |-> sx.hyperlinks, rels |-> sx.rels, k |-> 1,
              rows |-> Unwrap(sx.rows)]
    /\ UNCHANGED HkOthers

\* one <hyperlink> element
HkHyperlink ==
    /\ hk.pc = "events"
    /\ hk.k <= Len(hk.hyperlinks)
    /\ hk' = [hk EXCEPT !.k = hk.k + 1,
                        !.rows = ApplyHyperlink(hk.rows, hk.rels, hk.hyperlinks[hk.k])]
    /\ UNCHANGED HkOthers

\* </hyperlinks>, or the end of the document
HkEnd ==
    /\ hk.pc = "events"
    /\ hk.k > Len(hk.hyperlinks)
    /\ hk' = [hk EXCEPT !.pc = "done"]
    /\ UNCHANGED HkOthers

NextHk == HkCall \/ HkHyperlink \/ HkEnd

\* Sheets of the rows 1..MaxSheetRow, each row left out or holding "x" at A,
\* "y" at B, or "x" at A with an empty cell at B; up to MaxLinks hyperlinks.
MaxSheetRow == 3
MaxLinks == 2
CellRef(letter, n) == <<letter>> \o Digits(n)
RowOptions(n) ==
    {<<>>,
     <<[r |-> Some(CellRef(65, n)), value |-> <<120>>]>>,
     <<[r |-> Some(CellRef(66, n)), value |-> <<121>>]>>,
     <<[r |-> Some(CellRef(65, n)), value |-> <<120>>],
       [r |-> Some(CellRef(66, n)), value |-> <<>>]>>}
RECURSIVE SheetRowsFrom(_, _)
SheetRowsFrom(choice, n) ==
    IF n > MaxSheetRow THEN <<>>
    ELSE (IF choice[n] = <<>> THEN <<>> ELSE <<[start |-> TRUE, cells |-> choice[n]]>>)
            \o SheetRowsFrom(choice, n + 1)
SheetXmls ==
    {SheetRowsFrom(choice, 1) :
        choice \in {f \in [1 .. MaxSheetRow -> UNION {RowOptions(n) : n \in 1 .. MaxSheetRow}] :
                       \A n \in 1 .. MaxSheetRow : f[n] \in RowOptions(n)}}
LinkRefs == {CellRef(65, 1), CellRef(65, 2), CellRef(66, 2), CellRef(66, 3), CellRef(67, 1)}
Hyperlinks == [ref : LinkRefs, rid : {<<49>>, <<50>>}]
RelsKinds == {<<>>, (<<49>> :> <<117>>)}
InitLinks ==
    /\ \E xml \in SheetXmls : \E links \in SeqsUpTo(Hyperlinks, MaxLinks) :
         \E rels \in RelsKinds :
            sx = SxStart(xml) @@ [hyperlinks |-> links, rels |-> rels]
    /\ AllIdleBut("sx")
NextLinks == NextSx \/ NextHk
SpecLinks == InitLinks /\ [][NextLinks]_vars

\* the place in the grid of the cell the sheet has at `ref`: the row of the
\* grid made from the <row> that holds a cell with that reference, and the
\* column of the reference's letter; no place when the sheet has no such cell
PlacesOf(xml, ref) ==
    {<<i, ref[1] - 64>> : i \in {j \in DOMAIN xml :
                                    \E c \in DOMAIN xml[j].cells : xml[j].cells[c].r = Some(ref)}}
\* the grid with the cell at `ref` linked to the URL of `rid`
RECURSIVE Linked(_, _, _, _)
Linked(rows, xml, rels, links) ==
    IF links = <<>> THEN rows
    ELSE LET link == Head(links)
             places == {p \in PlacesOf(xml, link.ref) : rows[p[1]][p[2]] # <<>>}
         IN Linked(IF link.rid \in DOMAIN rels
                   THEN [i \in DOMAIN rows |->
                           [c \in DOMAIN rows[i] |->
                               IF <<i, c>> \in places
                               THEN MarkdownLink(rows[i][c], rels[link.rid])
                               ELSE rows[i][c]]]
                   ELSE rows,
                   xml, rels, Tail(links))

\* C22: for each hyperlink whose r:id resolves, the cell the sheet has at the
\* referenced row number and column letter becomes [existing](url) if it is
\* not empty, also when the sheet leaves out earlier rows or cells; no other
\* cell changes, and an empty or absent cell leaves the grid as it was.
C22_HyperlinkAtReference ==
    hk.pc = "done" =>
        hk.rows = Linked(Unwrap(sx.rows), sx.xml, sx.rels, sx.hyperlinks)

============================================================================
